---- MODULE Spec2Model ----
(***************************************************************************)
(* The LinkedIn -> X pipeline: run_pipeline.py launching fetch_posts.py,   *)
(* enrich_post.py, Twitter/tweetify_post.py and Twitter/post_tweet.py, one *)
(* process at a time, handing Documents over through three JSON files.     *)
(* A behaviour is one launch of a command (the orchestrator or one of the  *)
(* stage scripts on its own) on a repository whose files are the input.    *)
(* Strings that the code inspects character by character are sequences of *)
(* one-character strings; urls, file names and timestamps are atoms.       *)
(***************************************************************************)
EXTENDS Integers, Sequences, FiniteSets, TLC

\* ------------------------------------------------------------------ bounds

\* Longest images array of a Document found in the repository at launch.
MaxImages == 2

\* Longest "elements" array of a change-log response.
MaxRecords == 2

\* Longest text handed to a string helper character by character.
MaxLen == 4

\* Largest limit soft_trim is given for those texts.
MaxLimit == 3

\* Most pieces (tags, entities, characters) a markup text is made of.
MaxPieces == 3

\* Longest array of prompt sets in prompts.json.
MaxPrompts == 2

\* ------------------------------------------------------- program constants

DEFAULT_MAX_CHARS == 280

DEFAULT_TWEET_MAX == 280

HEADLINE_MAX == 70

DESC_MAX == 160

\* ------------------------------------------------------------------ strings

\* Characters a TLA+ string cannot hold are written by their code point: the
\* no-break space, the em dash, the typographic quotes and the backtick.
NBSP == "U+00A0"

EmDash == "U+2014"

\* the backtick of a code fence
Backtick == "U+0060"

\* what str.strip(), str.split() and the pattern \s take for whitespace
WS == {" ", "\n", "\t", NBSP}

TrimChars == {" ", ",", ".", ";", ":", "!", "?"}

RECURSIVE LStripSet(_, _)
LStripSet(s, cs) ==
    IF s # <<>> /\ Head(s) \in cs THEN LStripSet(Tail(s), cs) ELSE s

RECURSIVE RStripSet(_, _)
RStripSet(s, cs) ==
    IF s # <<>> /\ s[Len(s)] \in cs
    THEN RStripSet(SubSeq(s, 1, Len(s) - 1), cs)
    ELSE s

\* str.strip()
Strip(s) == RStripSet(LStripSet(s, WS), WS)

\* every run of whitespace becomes one space: the first character of a run
\* becomes the space, the others are marked "" and dropped
Squeeze(s) ==
    LET marked == [i \in 1..Len(s) |->
                      IF s[i] \notin WS THEN s[i]
                      ELSE IF i > 1 /\ s[i - 1] \in WS THEN "" ELSE " "]
    IN  SelectSeq(marked, LAMBDA ch : ch # "")

\* " ".join(s.split())
CollapseWs(s) == Strip(Squeeze(s))

\* s.rfind(" ") as a 1-based position, 0 when there is none
RFindSpace(s) ==
    LET at == {i \in 1..Len(s) : s[i] = " "}
    IN  IF at = {} THEN 0 ELSE CHOOSE i \in at : \A j \in at : j <= i

soft_trim(s, limit) ==
    LET t == CollapseWs(s)
        cut == SubSeq(t, 1, limit)
        sp == RFindSpace(cut)
        word == IF sp > 0 THEN SubSeq(cut, 1, sp - 1) ELSE cut
    IN  IF Len(t) <= limit THEN t ELSE RStripSet(word, TrimChars)

\* src/tweetify_post.py: the same steps, s never None
root_soft_trim(s, limit) ==
    LET t == CollapseWs(s)
        cut == SubSeq(t, 1, limit)
        sp == RFindSpace(cut)
        word == IF sp > 0 THEN SubSeq(cut, 1, sp - 1) ELSE cut
    IN  IF Len(t) <= limit THEN t ELSE RStripSet(word, TrimChars)

\* enrich_post.soft_trim returning after its first statement
enrich_soft_trim_uncut(s, limit) == Strip(s)

\* enrich_post.py: s.strip() only, the whitespace inside s is left as it is
enrich_soft_trim(s, limit) ==
    LET t == Strip(s)
        cut == SubSeq(t, 1, limit)
        sp == RFindSpace(cut)
        word == IF sp > 0 THEN SubSeq(cut, 1, sp - 1) ELSE cut
    IN  IF Len(t) <= limit THEN t ELSE RStripSet(word, TrimChars)

\* s.replace(c + c, ""): the pairs are taken from the left, without overlap,
\* so of a run of c's only the last one stays, and only when the run is odd
RemovePairs(s, c) ==
    LET first(i) == CHOOSE j \in 1..i :
                        /\ \A k \in j..i : s[k] = c
                        /\ j = 1 \/ s[j - 1] # c
        last(i) == CHOOSE e \in i..Len(s) :
                        /\ \A k \in i..e : s[k] = c
                        /\ e = Len(s) \/ s[e + 1] # c
        stays(i) == i = last(i) /\ (last(i) - first(i) + 1) % 2 = 1
        marked == [i \in 1..Len(s) |-> IF s[i] = c /\ ~stays(i) THEN "" ELSE s[i]]
    IN  SelectSeq(marked, LAMBDA ch : ch # "")

\* s.replace(a, b) for single characters
ReplaceChar(s, a, b) == [i \in 1..Len(s) |-> IF s[i] = a THEN b ELSE s[i]]

\* s.replace(c, "") for each character c of cs
RemoveChars(s, cs) == SelectSeq(s, LAMBDA ch : ch \notin cs)

\* enrich_post.sanitize: bold markers, em dashes, surrounding quotes
sanitize(s) ==
    LET a == Strip(ReplaceChar(RemovePairs(RemovePairs(s, "*"), "_"), EmDash, "-"))
    IN  Strip(RStripSet(LStripSet(a, {"\""}), {"\""}))

\* re.sub(r"<[^>]+>", " ", s) leaving the tags where they are
StripTagsKept(s) == s

\* re.sub(r"<[^>]+>", " ", s): a "<" opens a tag when the first ">" after it
\* is not its neighbour; the tag runs to that ">" and becomes one space (its
\* first character becomes the space, the others are marked "" and dropped)
StripTags(s) ==
    LET close(k) == IF \E j \in (k + 1)..Len(s) : s[j] = ">"
                    THEN CHOOSE j \in (k + 1)..Len(s) :
                            s[j] = ">" /\ \A m \in (k + 1)..(j - 1) : s[m] # ">"
                    ELSE 0
        opens(k) == s[k] = "<" /\ close(k) > k + 1
        inTag(i) == \E k \in 1..i : opens(k) /\ close(k) >= i
        first(i) == opens(i) /\ ~\E k \in 1..(i - 1) : opens(k) /\ close(k) >= i
        marked == [i \in 1..Len(s) |->
                      IF first(i) THEN " " ELSE IF inTag(i) THEN "" ELSE s[i]]
    IN  SelectSeq(marked, LAMBDA ch : ch # "")

\* the characters that end the name of a character reference
NameStop == {"\t", "\n", "\f", " ", "<", "&", "#", ";"}

\* html.entities.html5, the names the texts of the model can spell; each is
\* there with and without its ";"
Entities == {<<"l", "t">>, <<"g", "t">>, <<"a", "m", "p">>, <<"n", "b", "s", "p">>}

EntityChar(name) ==
    CASE name = <<"l", "t">> -> "<"
      [] name = <<"g", "t">> -> ">"
      [] name = <<"a", "m", "p">> -> "&"
      [] name = <<"n", "b", "s", "p">> -> NBSP

\* html._replace_charref for a named reference s (the text after "&"): the
\* name itself, or else its longest proper prefix of two or more characters
\* that is a name, or else the reference as it stands
ReplaceCharref(ref) ==
    LET name == IF ref[Len(ref)] = ";" THEN SubSeq(ref, 1, Len(ref) - 1) ELSE ref
        prefixes == {x \in 2..(Len(ref) - 1) : SubSeq(ref, 1, x) \in Entities}
        x == CHOOSE y \in prefixes : \A z \in prefixes : z <= y
    IN  IF name \in Entities THEN <<EntityChar(name)>>
        ELSE IF prefixes # {}
             THEN <<EntityChar(SubSeq(ref, 1, x))>> \o SubSeq(ref, x + 1, Len(ref))
             ELSE <<"&">> \o ref

\* html.unescape: "&", a name of 1 to 32 characters, an optional ";"
\* (the texts of the model have no "#", so no numeric reference)
RECURSIVE Unescape(_)
Unescape(s) ==
    LET rest == Tail(s)
        stops == {i \in 1..Len(rest) : rest[i] \in NameStop}
        n == IF stops = {} THEN Len(rest)
             ELSE (CHOOSE i \in stops : \A j \in stops : i <= j) - 1
        m == IF n > 32 THEN 32 ELSE n
        len == IF m < Len(rest) /\ rest[m + 1] = ";" THEN m + 1 ELSE m
    IN  IF s = <<>> THEN <<>>
        ELSE IF Head(s) = "&" /\ m > 0
             THEN ReplaceCharref(SubSeq(rest, 1, len))
                  \o Unescape(SubSeq(rest, len + 1, Len(rest)))
             ELSE <<Head(s)>> \o Unescape(rest)

\* the same function in enrich_post.py, tweetify_post.py and
\* Twitter/tweetify_post.py; None is taken for ""
strip_html_to_text(s) == CollapseWs(Unescape(StripTags(s)))

\* the straight and the typographic quotes sanitize_tweet removes
Quotes == {"\"", "'", "U+201C", "U+201D", "U+2019"}

\* the characters of the model that \w matches
WordChars == {"a", "b", "j", "s", "o", "n", "J", "S", "O", "N", "_"}

\* re.sub(r"(?:^|\s)" + mark + r"\w+", "", s): mark and the word after it, with
\* the whitespace character before it when it is not at the start of s
RECURSIVE RemoveTokens(_, _, _)
RemoveTokens(s, mark, atStart) ==
    LET lead == IF atStart /\ s[1] = mark THEN 0
                ELSE IF s[1] \in WS /\ Len(s) >= 2 /\ s[2] = mark THEN 1
                ELSE -1
        after == SubSeq(s, lead + 2, Len(s))
        word == Len(after) - Len(LStripSet(after, WordChars))
    IN  IF s = <<>> THEN <<>>
        ELSE IF lead >= 0 /\ word >= 1
             THEN RemoveTokens(SubSeq(after, word + 1, Len(after)), mark, FALSE)
             ELSE <<Head(s)>> \o RemoveTokens(Tail(s), mark, FALSE)

\* tweetify_post.sanitize_tweet
sanitize_tweet(s) ==
    LET a == ReplaceChar(RemovePairs(RemovePairs(s, "*"), "_"), EmDash, "-")
        b == RemoveChars(a, Quotes)
        c == RemoveTokens(RemoveTokens(b, "#", TRUE), "@", TRUE)
    IN  Strip(CollapseWs(c))

\* str.lower() on the letters of the model
Lower(s) ==
    [i \in 1..Len(s) |->
        CASE s[i] = "J" -> "j" [] s[i] = "S" -> "s" [] s[i] = "O" -> "o"
          [] s[i] = "N" -> "n" [] OTHER -> s[i]]

StartsWith(s, p) == Len(s) >= Len(p) /\ SubSeq(s, 1, Len(p)) = p

EndsWith(s, p) == Len(s) >= Len(p) /\ SubSeq(s, Len(s) - Len(p) + 1, Len(s)) = p

\* "Strip code fences if present", after _safe_output_text(response).strip():
\* the backticks at both ends, then a leading "json" in any case and the
\* whitespace after it
StripFence(text) ==
    LET raw == Strip(text)
        a == RStripSet(LStripSet(raw, {Backtick}), {Backtick})
        b == IF StartsWith(Lower(a), <<"j", "s", "o", "n">>)
             THEN LStripSet(SubSeq(a, 5, Len(a)), WS)
             ELSE a
        c == IF EndsWith(b, <<Backtick, Backtick, Backtick>>)
             THEN RStripSet(SubSeq(b, 1, Len(b) - 3), WS)
             ELSE b
    IN  IF StartsWith(raw, <<Backtick, Backtick, Backtick>>) THEN c ELSE raw

\* tweetify_post.generate_tweet, from the model's text on
generate_tweet(text, tweet_max) ==
    root_soft_trim(sanitize_tweet(StripFence(text)), tweet_max)

\* generate_seo_fields, one field of the parsed object: sanitize, soft_trim,
\* " ".join(field.split())
SeoField(value, limit) == CollapseWs(enrich_soft_trim(sanitize(value), limit))

\* s.find(c) and s.rfind(c), counted from 1, 0 when c is not in s
FindChar(s, c) ==
    LET at == {i \in 1..Len(s) : s[i] = c}
    IN  IF at = {} THEN 0 ELSE CHOOSE i \in at : \A j \in at : i <= j

RFindChar(s, c) ==
    LET at == {i \in 1..Len(s) : s[i] = c}
    IN  IF at = {} THEN 0 ELSE CHOOSE i \in at : \A j \in at : i >= j

\* json.loads: the whitespace it skips, the digits of the model, the two
\* keys generate_seo_fields reads
JsonWs == {" ", "\n", "\t", "\r"}

Digits == {"5"}

HeadlineKey == <<"h", "e", "a", "d", "l", "i", "n", "e">>

DescriptionKey == <<"d", "e", "s", "c", "r", "i", "p", "t", "i", "o", "n">>

\* a value of the parsed object as sanitize sees it: no such key, a string,
\* an empty list or mapping (falsy), or anything else
NoField == [type |-> "absent", text |-> <<>>]

\* what json.loads tells generate_seo_fields about a value: whether the text
\* parsed, where the value ended, its kind, the text of a string, whether a
\* list or mapping is empty, and the two fields of a mapping
Unparsed ==
    [ok |-> FALSE, next |-> 0, kind |-> "none", text |-> <<>>, empty |-> FALSE,
     headline |-> NoField, description |-> NoField]

Parsed(next, kind, text, empty, headline, description) ==
    [ok |-> TRUE, next |-> next, kind |-> kind, text |-> text, empty |-> empty,
     headline |-> headline, description |-> description]

\* the first position from i on that holds no JSON whitespace
SkipWs(s, i) ==
    LET rest == {j \in i..Len(s) : s[j] \notin JsonWs}
    IN  IF rest = {} THEN Len(s) + 1 ELSE CHOOSE j \in rest : \A k \in rest : j <= k

\* a string that opens at i: up to the next quote, no control character in it
ScanString(s, i) ==
    LET close == {j \in (i + 1)..Len(s) : s[j] = "\""}
        j == CHOOSE k \in close : \A l \in close : k <= l
        text == SubSeq(s, i + 1, j - 1)
    IN  IF i > Len(s) \/ s[i] # "\"" \/ close = {} THEN Unparsed
        ELSE IF \E k \in 1..Len(text) : text[k] \in {"\n", "\t", "\r"} THEN Unparsed
        ELSE Parsed(j + 1, "str", text, text = <<>>, NoField, NoField)

\* the value a member holds, as a field of the mapping
AsField(v) ==
    IF v.kind = "str" THEN [type |-> "str", text |-> v.text]
    ELSE IF v.empty THEN [type |-> "falsy", text |-> <<>>]
    ELSE [type |-> "other", text |-> <<>>]

RECURSIVE ParseValue(_, _)
RECURSIVE ParseMembers(_, _, _, _)
RECURSIVE ParseItems(_, _)

\* the members of a mapping from its first key on: "key" : value, then "," and
\* another member or "}"; a later member replaces an earlier one of its key
ParseMembers(s, i, headline, description) ==
    LET key == ScanString(s, SkipWs(s, i))
        colon == SkipWs(s, key.next)
        v == ParseValue(s, colon + 1)
        after == SkipWs(s, v.next)
        h == IF key.text = HeadlineKey THEN AsField(v) ELSE headline
        d == IF key.text = DescriptionKey THEN AsField(v) ELSE description
    IN  IF ~key.ok \/ colon > Len(s) \/ s[colon] # ":" THEN Unparsed
        ELSE IF ~v.ok \/ after > Len(s) THEN Unparsed
        ELSE IF s[after] = "}" THEN Parsed(after + 1, "obj", <<>>, FALSE, h, d)
        ELSE IF s[after] = "," THEN ParseMembers(s, after + 1, h, d)
        ELSE Unparsed

\* the items of a list from its first item on
ParseItems(s, i) ==
    LET v == ParseValue(s, i)
        after == SkipWs(s, v.next)
    IN  IF ~v.ok \/ after > Len(s) THEN Unparsed
        ELSE IF s[after] = "]" THEN Parsed(after + 1, "arr", <<>>, FALSE, NoField, NoField)
        ELSE IF s[after] = "," THEN ParseItems(s, after + 1)
        ELSE Unparsed

\* one JSON value from i on, whitespace before it skipped
ParseValue(s, i) ==
    LET at == SkipWs(s, i)
        inner == SkipWs(s, at + 1)
        digits == Len(SubSeq(s, at, Len(s))) - Len(LStripSet(SubSeq(s, at, Len(s)), Digits))
    IN  IF at > Len(s) THEN Unparsed
        ELSE IF s[at] = "{"
        THEN IF inner <= Len(s) /\ s[inner] = "}"
             THEN Parsed(inner + 1, "obj", <<>>, TRUE, NoField, NoField)
             ELSE ParseMembers(s, at + 1, NoField, NoField)
        ELSE IF s[at] = "["
        THEN IF inner <= Len(s) /\ s[inner] = "]"
             THEN Parsed(inner + 1, "arr", <<>>, TRUE, NoField, NoField)
             ELSE ParseItems(s, at + 1)
        ELSE IF s[at] = "\"" THEN ScanString(s, at)
        ELSE IF s[at] \in Digits
        THEN Parsed(at + digits, "num", <<>>, FALSE, NoField, NoField)
        ELSE Unparsed

\* json.loads(s): one value and nothing but whitespace after it
Loads(s) ==
    LET v == ParseValue(s, 1)
    IN  IF v.ok /\ SkipWs(s, v.next) = Len(s) + 1 THEN v ELSE Unparsed

\* raw[start:end+1] of the fallback, <<>> when the braces are not there
BraceSpan(raw) ==
    LET start == FindChar(raw, "{")
        end == RFindChar(raw, "}")
    IN  IF start # 0 /\ end # 0 /\ end > start THEN SubSeq(raw, start, end) ELSE <<>>

\* the strict parse without its except branch
ParsedOnly(raw) == Loads(raw)

\* "Strict parse or fallback extraction": data after the try
ParsedOrScanned(raw) ==
    IF Loads(raw).ok THEN Loads(raw)
    ELSE IF BraceSpan(raw) # <<>> THEN Loads(BraceSpan(raw))
    ELSE Unparsed

\* what generate_seo_fields returns or that it raises
SeoRaised == [raised |-> TRUE, headline |-> <<>>, description |-> <<>>]

SeoReturned(headline, description) ==
    [raised |-> FALSE, headline |-> headline, description |-> description]

\* generate_seo_fields, from the model's text on: the fence, the parse, the
\* default for anything that is no mapping, then the two fields; sanitize
\* returns "" for a falsy value and raises on any other value that is no string
generate_seo_fields(text) ==
    LET data == ParsedOrScanned(StripFence(text))
        isDict == data.ok /\ data.kind = "obj"
        headline == IF isDict THEN data.headline ELSE NoField
        description == IF isDict THEN data.description ELSE NoField
    IN  IF headline.type = "other" \/ description.type = "other" THEN SeoRaised
        ELSE SeoReturned(SeoField(headline.text, HEADLINE_MAX),
                         SeoField(description.text, DESC_MAX))

\* s.replace(old, new): the occurrences of old from left to right, none of
\* them overlapping the one before it (old is never empty here)
RECURSIVE Replace(_, _, _)
Replace(s, old, new) ==
    LET at == {i \in 1..(Len(s) - Len(old) + 1) : SubSeq(s, i, i + Len(old) - 1) = old}
        i == CHOOSE x \in at : \A y \in at : x <= y
    IN  IF at = {} THEN s
        ELSE SubSeq(s, 1, i - 1) \o new
             \o Replace(SubSeq(s, i + Len(old), Len(s)), old, new)

\* "{" + k + "}" and f"{{{{{k}}}}}"
Marker(k) == <<"{">> \o k \o <<"}">>

CurlyMarker(k) == <<"{", "{">> \o k \o <<"}", "}">>

\* fill_placeholders: one replace per key, in the order of mapping.items(),
\* each on the result of the one before; mapping is the sequence of its items
RECURSIVE fill_placeholders(_, _)
fill_placeholders(template, mapping) ==
    IF mapping = <<>> THEN template
    ELSE fill_placeholders(Replace(template, Marker(Head(mapping).k), Head(mapping).v),
                           Tail(mapping))

\* Twitter/tweetify_post.apply_curly_placeholders: the same loop on {{key}}
RECURSIVE apply_curly_placeholders(_, _)
apply_curly_placeholders(template, mapping) ==
    IF mapping = <<>> THEN template
    ELSE apply_curly_placeholders(
            Replace(template, CurlyMarker(Head(mapping).k), Head(mapping).v),
            Tail(mapping))

\* the keys of the two call sites
CONTENT == <<"C", "O", "N", "T", "E", "N", "T">>

HEADLINE_MAX_KEY == <<"H", "E", "A", "D", "L", "I", "N", "E", "_", "M", "A", "X">>

TITLE_MAX_KEY == <<"T", "I", "T", "L", "E", "_", "M", "A", "X">>

DESC_MAX_KEY == <<"D", "E", "S", "C", "_", "M", "A", "X">>

linkedin_post_text == <<"l", "i", "n", "k", "e", "d", "i", "n", "_", "p", "o", "s", "t", "_", "t", "e", "x", "t">>

image_urls == <<"i", "m", "a", "g", "e", "_", "u", "r", "l", "s">>

\* str(HEADLINE_MAX) and str(DESC_MAX)
HeadlineMaxStr == <<"7", "0">>

DescMaxStr == <<"1", "6", "0">>

\* the mapping generate_seo_fields passes, in the order it is written
SeoMapping(plain_text) ==
    <<[k |-> CONTENT, v |-> plain_text],
      [k |-> HEADLINE_MAX_KEY, v |-> HeadlineMaxStr],
      [k |-> TITLE_MAX_KEY, v |-> HeadlineMaxStr],
      [k |-> DESC_MAX_KEY, v |-> DescMaxStr]>>

\* the mapping Twitter/tweetify_post.main passes
TweetMapping(src_text, urls) ==
    <<[k |-> linkedin_post_text, v |-> src_text],
      [k |-> image_urls, v |-> urls]>>

\* ---------------------------------------------------------------- documents

NoSeo == [present |-> FALSE, headline |-> <<>>, description |-> <<>>]

NullDoc ==
    [content |-> <<>>, url |-> "", published_at |-> "", images |-> <<>>,
     seo |-> NoSeo]

Missing == [st |-> "missing", doc |-> NullDoc]

Corrupt == [st |-> "corrupt", doc |-> NullDoc]

FileOf(d) == [st |-> "ok", doc |-> d]

Urls == {"", "https://www.linkedin.com/feed/update/p1",
         "https://www.linkedin.com/feed/update/p2"}

ImageUrls == {"", "https://raw.githubusercontent.com/GiacomoIono/linkedin-posts-clean/refs/heads/main/images/1970-01-02.jpeg"}

Alts == {<<>>, <<" ">>, <<"a">>}

Images == [url : ImageUrls, alt : Alts]

SeqsUpTo(S, n) == UNION {[1..k -> S] : k \in 0..n}

Contents == {<<>>, <<" ">>, <<" ", "a">>}

MakeDoc(c, u, p, il) ==
    [content |-> c, url |-> u, published_at |-> p, images |-> il, seo |-> NoSeo]

\* ------------------------------------------------------------------- state

VARIABLES
    lastPost,   \* last_linkedin_post.json
    enriched,   \* last_linkedin_post.enriched.json
    tweet,      \* Twitter/tweet.json
    rootTweet,  \* tweet.json of the repository root, which src/tweetify_post.py writes
    force,      \* FORCE_POST is set in the environment
    prompts,    \* prompts.json and the prompt selectors of the environment
    cmd,        \* the command that was launched
    orch,       \* run_pipeline.main: "none", "ready", "waiting", "done", "failed"
    invoked,    \* the scripts run_script has started, in order
    exits,      \* the return codes run_script has seen, in order
    stage,      \* the stage process that exists now, or "none"
    pc,         \* its position
    exitCode,   \* its exit code, -1 while it runs
    data,       \* its Document (data / src / out / tweet_data)
    idx,        \* its position in the images loop
    resp,       \* fetch_posts: the change-log response
    promptSet,  \* the prompt set the stage resolved
    mediaIds,   \* post_tweet: media_ids
    guard,      \* post_tweet: what the early-exit test decided
    calls,      \* every call made to an external collaborator, in order
    io,         \* every snapshot read or written, in order
    published,  \* urls of the source posts X already carries
    fnName,     \* a helper function applied on its own, "none" in a launch
    fnIn,       \* its argument
    fnLimit,    \* its limit argument
    fnOut       \* what it returned

files == <<lastPost, enriched, tweet, rootTweet>>

orchVars == <<orch, invoked, exits>>

procVars == <<stage, pc, exitCode, data, idx, resp, promptSet, mediaIds>>

logVars == <<guard, calls, io, published>>

fnVars == <<fnName, fnIn, fnLimit, fnOut>>

vars == <<files, force, prompts, cmd, fnVars, orchVars, procVars, logVars>>

Stages == <<"fetch_posts", "enrich_post", "tweetify_post", "post_tweet">>

\* "tweetify_post" is Twitter/tweetify_post.py, the script the orchestrator
\* runs; "root_tweetify_post" is tweetify_post.py of the repository root
Commands ==
    {"run_pipeline", "fetch_posts", "enrich_post", "tweetify_post", "post_tweet",
     "root_tweetify_post"}

NullResp == [status |-> "none", elements |-> <<>>]

\* no prompt set resolved
NoPromptSet == [id |-> <<>>, tpl |-> <<>>]

Call(svc, img, ok) ==
    [svc |-> svc, img |-> img, ok |-> ok, text |-> <<>>, media |-> <<>>]

Io(s, op, f) == [stage |-> s, op |-> op, file |-> f]

\* sys.exit(code), or falling off the end of the script
Exit(code) ==
    /\ pc' = "done"
    /\ exitCode' = code

\* ------------------------------------------------------------ prompts.json

\* the value of a template key in a prompt set: no such key, a value that is
\* not a string, a string
NoKey == [type |-> "absent", text |-> <<>>]

NotAString == [type |-> "number", text |-> <<>>]

Template(t) == [type |-> "str", text |-> t]

PromptValues == {NoKey, NotAString, Template(<<>>), Template(<<"t">>)}

EnrichKeys == {"seo_system", "seo_user", "alt_system", "alt_user"}

TweetKeys == {"tweet_system", "tweet_user"}

PromptIds == {<<"a">>, <<"b">>}

\* prompt sets with the keys of a role: every key a template, or one of the
\* keys in varied with any value
PromptEntries(keys, varied) ==
    {[id |-> i, tpl |-> [k \in keys |-> IF k = bad THEN v ELSE Template(<<"t">>)]] :
        i \in PromptIds, bad \in varied, v \in PromptValues}

\* data.get(name): not a list, or a list of prompt sets
NoArray == [list |-> FALSE, items |-> <<>>]

PromptArrays(keys, varied) ==
    {NoArray} \cup
    {[list |-> TRUE, items |-> items] :
        items \in SeqsUpTo(PromptEntries(keys, varied), MaxPrompts)}

\* a selector of the environment: unset, an id, an id with spaces around it,
\* an id no prompt set has
Selectors == {<<>>, <<"a">>, <<" ", "b", " ">>, <<"z">>}

GoodEnrichArray ==
    [list |-> TRUE,
     items |-> <<[id |-> <<"a">>, tpl |-> [k \in EnrichKeys |-> Template(<<"t">>)]]>>]

GoodTweetArray ==
    [list |-> TRUE,
     items |-> <<[id |-> <<"a">>, tpl |-> [k \in TweetKeys |-> Template(<<"t">>)]]>>]

\* prompts.json with its two arrays, and the three selectors
PromptsDoc(enrichment, tweets, selector) ==
    [linkedin_post_enrichment |-> enrichment,
     tweet_generation |-> tweets,
     LINKEDIN_PROMPT_PROFILE |-> selector,
     TWEET_PROMPT_PROFILE |-> selector,
     TWEET_PROMPT_ID |-> selector]

GoodPrompts == PromptsDoc(GoodEnrichArray, GoodTweetArray, <<>>)

NoPrompts == PromptsDoc(NoArray, NoArray, <<>>)

Unresolved == [ok |-> FALSE, warned |-> FALSE, set |-> NoPromptSet]

\* the loop and the fallback without the loop: always the first set
ChosenIndexFirst(items, selector) == 1

\* the loop over the array and the fallback: the first set whose id is the
\* selector, stripped, or else the first set
ChosenIndex(items, selector) ==
    LET desired == Strip(selector)
        matching == {i \in DOMAIN items : items[i].id = desired}
    IN  IF desired # <<>> /\ matching # {}
        THEN CHOOSE i \in matching : \A j \in matching : i <= j
        ELSE 1

\* the warning of the loaders: a selector was given and no set has it
Warned(items, selector) ==
    Strip(selector) # <<>> /\ \A i \in DOMAIN items : items[i].id # Strip(selector)

\* key in chosen and isinstance(chosen[key], str)
KeyIsString(entry, key) == entry.tpl[key].type = "str"

\* the three loaders: the array test, the choice, the required keys
Resolve(sets, selector, required) ==
    LET chosen == sets.items[ChosenIndex(sets.items, selector)]
    IN  IF ~sets.list \/ sets.items = <<>> THEN Unresolved
        ELSE IF \E key \in required : ~KeyIsString(chosen, key)
             THEN [Unresolved EXCEPT !.warned = Warned(sets.items, selector)]
             ELSE [ok |-> TRUE, warned |-> Warned(sets.items, selector), set |-> chosen]

\* enrich_post.load_prompts
load_prompts(doc) ==
    Resolve(doc.linkedin_post_enrichment, doc.LINKEDIN_PROMPT_PROFILE, EnrichKeys)

\* tweetify_post.load_tweet_prompts
load_tweet_prompts(doc) ==
    Resolve(doc.tweet_generation, doc.TWEET_PROMPT_PROFILE, TweetKeys)

\* Twitter/tweetify_post.pick_prompt: the two templates of the chosen set
pick_prompt(doc) ==
    LET r == Resolve(doc.tweet_generation, doc.TWEET_PROMPT_ID, TweetKeys)
    IN  IF r.ok
        THEN [r EXCEPT !.set = [id |-> <<>>,
                                tpl |-> [k \in TweetKeys |-> r.set.tpl[k]]]]
        ELSE r

\* ------------------------------------------------------------ orchestrator

\* run_script without its returncode test
ScriptFailsNever(rc) == FALSE

ScriptFails(rc) == rc # 0

\* run_script up to subprocess.run: a missing script ends the orchestrator with
\* exit code 1, otherwise the script runs as a child process
RunScript ==
    /\ orch = "ready"
    /\ stage = "none"
    /\ \E exists \in BOOLEAN :
        IF ~exists
        THEN /\ orch' = "failed"
             /\ UNCHANGED <<invoked, procVars>>
        ELSE /\ orch' = "waiting"
             /\ invoked' = Append(invoked, Stages[Len(invoked) + 1])
             /\ stage' = Stages[Len(invoked) + 1]
             /\ pc' = "start"
             /\ exitCode' = -1
             /\ data' = NullDoc
             /\ idx' = 0
             /\ resp' = NullResp
             /\ promptSet' = NoPromptSet
             /\ mediaIds' = <<>>
    /\ UNCHANGED <<files, force, prompts, cmd, fnVars, exits, logVars>>

\* run_script after subprocess.run returned, and main up to the next run_script:
\* a non-zero return code ends the orchestrator with exit code 1; time.sleep(10)
\* changes nothing
ScriptReturned ==
    /\ orch = "waiting"
    /\ pc = "done"
    /\ exits' = Append(exits, exitCode)
    /\ orch' = IF ScriptFails(exitCode) THEN "failed"
               ELSE IF Len(invoked) = Len(Stages) THEN "done"
               ELSE "ready"
    /\ stage' = "none"
    /\ UNCHANGED <<files, force, prompts, cmd, fnVars, invoked, logVars>>
    /\ UNCHANGED <<pc, exitCode, data, idx, resp, promptSet, mediaIds>>

\* ------------------------------------------------------------ fetch_posts

\* capturedAt, in milliseconds: the epoch, and one and two days after it
Timestamps == {0, 86400000, 172800000}

\* datetime.fromtimestamp(timestamp / 1000).isoformat(), the process in UTC
IsoFormat(ts) ==
    CASE ts = 0 -> "1970-01-01T00:00:00"
      [] ts = 86400000 -> "1970-01-02T00:00:00"
      [] ts = 172800000 -> "1970-01-03T00:00:00"

\* datetime.fromisoformat(published_at).strftime("%Y-%m-%d")
DateOf(iso) ==
    CASE iso = "1970-01-01T00:00:00" -> "1970-01-01"
      [] iso = "1970-01-02T00:00:00" -> "1970-01-02"
      [] iso = "1970-01-03T00:00:00" -> "1970-01-03"

\* what os.listdir("images") may hold
ImageFiles == {"1970-01-02-b.JPEG", "1970-01-02.jpeg", "1970-01-03.jpeg", "1970-01-02.png"}

\* the date a file name starts with, and whether its lower case ends with ".jpeg"
FileDate(fn) == IF fn = "1970-01-03.jpeg" THEN "1970-01-03" ELSE "1970-01-02"

IsJpeg(fn) == fn # "1970-01-02.png"

\* the place of a file name in the order list.sort() gives ("-" sorts before ".")
FileRank(fn) ==
    CASE fn = "1970-01-02-b.JPEG" -> 1
      [] fn = "1970-01-02.jpeg" -> 2
      [] fn = "1970-01-02.png" -> 3
      [] fn = "1970-01-03.jpeg" -> 4

\* base_url + fn
FullImageUrl(fn) ==
    CASE fn = "1970-01-02-b.JPEG" -> "https://raw.githubusercontent.com/GiacomoIono/linkedin-posts-clean/refs/heads/main/images/1970-01-02-b.JPEG"
      [] fn = "1970-01-02.jpeg" -> "https://raw.githubusercontent.com/GiacomoIono/linkedin-posts-clean/refs/heads/main/images/1970-01-02.jpeg"
      [] fn = "1970-01-02.png" -> "https://raw.githubusercontent.com/GiacomoIono/linkedin-posts-clean/refs/heads/main/images/1970-01-02.png"
      [] fn = "1970-01-03.jpeg" -> "https://raw.githubusercontent.com/GiacomoIono/linkedin-posts-clean/refs/heads/main/images/1970-01-03.jpeg"

RECURSIVE SortedFiles(_)
SortedFiles(fs) ==
    IF fs = {} THEN <<>>
    ELSE LET f == CHOOSE x \in fs : \A y \in fs : FileRank(x) <= FileRank(y)
         IN  <<f>> \o SortedFiles(fs \ {f})

\* steps 3 to 5: the date-prefixed .jpeg files, sorted, as images without alt
MatchingImages(listing, date) ==
    LET image_list == SortedFiles({fn \in listing : FileDate(fn) = date /\ IsJpeg(fn)})
    IN  [i \in 1..Len(image_list) |-> [url |-> FullImageUrl(image_list[i]), alt |-> <<>>]]

\* f"https://www.linkedin.com/feed/update/{resourceId}"
PostUrl(id) ==
    CASE id = "p1" -> "https://www.linkedin.com/feed/update/p1"
      [] id = "p2" -> "https://www.linkedin.com/feed/update/p2"

\* raw_text.strip().split("\n\n")
RECURSIVE SplitParagraphs(_)
SplitParagraphs(s) ==
    LET at == {i \in 1..(Len(s) - 1) : s[i] = "\n" /\ s[i + 1] = "\n"}
        i == CHOOSE x \in at : \A y \in at : x <= y
    IN  IF at = {} THEN <<s>>
        ELSE <<SubSeq(s, 1, i - 1)>> \o SplitParagraphs(SubSeq(s, i + 2, Len(s)))

\* paragraph.replace("\n", "<br>")
RECURSIVE BreakLines(_)
BreakLines(s) ==
    IF s = <<>> THEN <<>>
    ELSE (IF Head(s) = "\n" THEN <<"<", "b", "r", ">">> ELSE <<Head(s)>>)
         \o BreakLines(Tail(s))

RECURSIVE JoinParagraphs(_)
JoinParagraphs(ps) ==
    IF ps = <<>> THEN <<>>
    ELSE <<"<", "p", ">">> \o BreakLines(Head(ps)) \o <<"<", "/", "p", ">">>
         \o <<"<", "p", ">", "&", "n", "b", "s", "p", ";", "<", "/", "p", ">">>
         \o JoinParagraphs(Tail(ps))

HtmlContent(raw_text) == JoinParagraphs(SplitParagraphs(Strip(raw_text)))

\* shareCommentary.text of the two posts the member may have written
TextOf(id) == IF id = "p1" THEN <<"a">> ELSE <<"a", "\n", "\n", "b", "\n", "c">>

\* change-log records: posts created at each of the timestamps, a post that
\* was deleted, and a record of another resource
Records ==
    {[resourceName |-> "ugcPosts", method |-> "CREATE", capturedAt |-> t,
      resourceId |-> id, text |-> TextOf(id)] : t \in Timestamps, id \in {"p1", "p2"}}
    \cup {[resourceName |-> "ugcPosts", method |-> "DELETE", capturedAt |-> 172800000,
           resourceId |-> "p2", text |-> TextOf("p2")],
          [resourceName |-> "shares", method |-> "CREATE", capturedAt |-> 172800000,
           resourceId |-> "p1", text |-> TextOf("p1")]}

Responses ==
    {[status |-> "200", elements |-> els] : els \in SeqsUpTo(Records, MaxRecords)}
    \cup {[status |-> "500", elements |-> <<>>], [status |-> "exception", elements |-> <<>>]}

Eligible(element) ==
    element.resourceName = "ugcPosts" /\ element.method = "CREATE"

NoPost == [found |-> FALSE, timestamp |-> 0, post |-> NullDoc]

\* the loop with ">=" for ">": a record also replaces one of its own timestamp
RECURSIVE LatestPostOrEqual(_, _)
LatestPostOrEqual(elements, latest) ==
    IF elements = <<>> THEN latest
    ELSE LET element == Head(elements)
             timestamp == element.capturedAt
         IN  IF Eligible(element) /\ timestamp >= latest.timestamp
             THEN LatestPostOrEqual(Tail(elements),
                     [found |-> TRUE, timestamp |-> timestamp,
                      post |-> MakeDoc(HtmlContent(element.text),
                                       PostUrl(element.resourceId),
                                       IsoFormat(timestamp), <<>>)])
             ELSE LatestPostOrEqual(Tail(elements), latest)

\* the loop over data["elements"]: a record replaces the latest one only when
\* its capturedAt is greater than latest_timestamp, which starts at 0
RECURSIVE LatestPost(_, _)
LatestPost(elements, latest) ==
    IF elements = <<>> THEN latest
    ELSE LET element == Head(elements)
             timestamp == element.capturedAt
         IN  IF Eligible(element) /\ timestamp > latest.timestamp
             THEN LatestPost(Tail(elements),
                     [found |-> TRUE, timestamp |-> timestamp,
                      post |-> MakeDoc(HtmlContent(element.text),
                                       PostUrl(element.resourceId),
                                       IsoFormat(timestamp), <<>>)])
             ELSE LatestPost(Tail(elements), latest)

\* the exit code of fetch_posts.py: fetch_last_linkedin_post returns None on a
\* non-200 status and on any exception, and the script ends normally
FetchExit(status) == 0

\* fetch_posts.py, whole: one query, the selection, the images, the snapshot
\* (the script is run from the repository root, where its relative paths
\* "images" and "last_linkedin_post.json" are the ones the other stages use)
FetchMain ==
    /\ stage = "fetch_posts"
    /\ pc = "start"
    /\ \E r \in Responses, listing \in SUBSET ImageFiles :
        LET latest == LatestPost(r.elements, NoPost)
            found == r.status = "200" /\ latest.found
            post == [latest.post EXCEPT
                        !.images = MatchingImages(listing, DateOf(latest.post.published_at))]
        IN  /\ resp' = r
            /\ calls' = Append(calls, Call("changelog", 0, r.status = "200"))
            /\ lastPost' = IF found THEN FileOf(post) ELSE lastPost
            /\ io' = IF found
                     THEN Append(io, Io("fetch_posts", "write", "last_linkedin_post.json"))
                     ELSE IF r.status = "200"
                     THEN Append(io, Io("fetch_posts", "print", "No posts found"))
                     ELSE io
            /\ Exit(FetchExit(r.status))
    /\ UNCHANGED <<enriched, tweet, rootTweet, force, prompts, cmd, fnVars, orchVars, stage, data, idx, mediaIds>>
    /\ UNCHANGED <<promptSet, guard, published>>

\* ------------------------------------------------------------ enrich_post

\* what generate_seo_fields may return
SeoResults ==
    {[present |-> TRUE, headline |-> <<>>, description |-> <<>>],
     [present |-> TRUE, headline |-> <<"h">>, description |-> <<"d">>]}

\* what generate_alt_for_image may return (sanitize can leave nothing)
AltResults == {<<>>, <<"g">>}

\* main up to load_prompts: the key and the input snapshot
EnrichLoad ==
    /\ stage = "enrich_post"
    /\ pc = "start"
    /\ \E keyOk \in BOOLEAN :
        IF keyOk /\ lastPost.st = "ok"
        THEN /\ data' = lastPost.doc
             /\ io' = Append(io, Io("enrich_post", "read", "last_linkedin_post.json"))
             /\ pc' = "prompts"
             /\ UNCHANGED exitCode
        ELSE /\ Exit(1)
             /\ UNCHANGED <<data, io>>
    /\ UNCHANGED <<files, force, prompts, cmd, fnVars, orchVars, stage, idx, resp, promptSet, mediaIds>>
    /\ UNCHANGED <<guard, calls, published>>

\* prompts = load_prompts(), up to client = OpenAI(): a prompt set, or exit
\* code 1
EnrichPrompts ==
    /\ stage = "enrich_post"
    /\ pc = "prompts"
    /\ LET r == load_prompts(prompts)
       IN  IF r.ok
           THEN /\ promptSet' = r.set
                /\ pc' = "seo"
                /\ UNCHANGED exitCode
           ELSE /\ Exit(1)
                /\ UNCHANGED promptSet
    /\ UNCHANGED <<files, force, prompts, cmd, fnVars, orchVars, stage, data, idx, resp, mediaIds>>
    /\ UNCHANGED logVars

\* step 1: the SEO call; any exception ends the stage with exit code 1
EnrichSeo ==
    /\ stage = "enrich_post"
    /\ pc = "seo"
    /\ \/ \E seo \in SeoResults :
            /\ calls' = Append(calls, Call("seo", 0, TRUE))
            /\ data' = [data EXCEPT !.seo = seo]
            /\ pc' = "alt"
            /\ idx' = 1
            /\ UNCHANGED exitCode
       \/ /\ calls' = Append(calls, Call("seo", 0, FALSE))
          /\ Exit(1)
          /\ UNCHANGED <<data, idx>>
    /\ UNCHANGED <<files, force, prompts, cmd, fnVars, orchVars, stage, resp, promptSet, mediaIds>>
    /\ UNCHANGED <<guard, io, published>>

\* the loop body without its current_alt test
NeedsAltWhateverItHas(img) == img.url # ""

\* the test of the loop body: an image with a url whose alt, stripped, is empty
NeedsAlt(img) == img.url # "" /\ Strip(img.alt) = <<>>

\* the loop without its try: the exception ends the process
AfterAltFailureUncaught == [pc |-> "done", exitCode |-> 1]

\* where the loop goes after generate_alt_for_image raised: the except clause
\* logs, and the loop goes on
AfterAltFailure == [pc |-> "alt", exitCode |-> -1]

\* step 2, one image: skip it, or one model call for its alt text
EnrichAlt ==
    /\ stage = "enrich_post"
    /\ pc = "alt"
    /\ idx <= Len(data.images)
    /\ idx' = idx + 1
    /\ IF ~NeedsAlt(data.images[idx])
       THEN UNCHANGED <<data, calls, pc, exitCode>>
       ELSE \/ \E alt \in AltResults :
                 /\ calls' = Append(calls, Call("alt", idx, TRUE))
                 /\ data' = [data EXCEPT !.images[idx].alt = alt]
                 /\ UNCHANGED <<pc, exitCode>>
            \/ /\ calls' = Append(calls, Call("alt", idx, FALSE))
               /\ pc' = AfterAltFailure.pc
               /\ exitCode' = AfterAltFailure.exitCode
               /\ UNCHANGED data
    /\ UNCHANGED <<files, force, prompts, cmd, fnVars, orchVars, stage, resp, promptSet, mediaIds>>
    /\ UNCHANGED <<guard, io, published>>

\* step 3: the new snapshot; a failed write ends the stage with exit code 1
EnrichWrite ==
    /\ stage = "enrich_post"
    /\ pc = "alt"
    /\ idx > Len(data.images)
    /\ \/ /\ enriched' = FileOf(data)
          /\ io' = Append(io, Io("enrich_post", "write", "last_linkedin_post.enriched.json"))
          /\ Exit(0)
       \/ /\ Exit(1)
          /\ UNCHANGED <<enriched, io>>
    /\ UNCHANGED <<lastPost, tweet, rootTweet, force, prompts, cmd, fnVars, orchVars, stage, data, idx, resp, promptSet, mediaIds>>
    /\ UNCHANGED <<guard, calls, published>>

\* ------------------------------------------------- Twitter/tweetify_post

\* TWEET_MAX_CHARS: unset, or set to a small budget
TweetBudgets == {DEFAULT_MAX_CHARS, 3}

\* the "tweet" of the model's answer: empty, padded, with punctuation, with
\* a hashtag
TweetTexts == {<<>>, <<" ", "a">>, <<"a", " ", "b", ".">>, <<"#", "a">>}

SelectedImages ==
    {<<>>,
     <<[url |-> "", alt |-> <<"a">>]>>,
     <<[url |-> "https://raw.githubusercontent.com/GiacomoIono/linkedin-posts-clean/refs/heads/main/images/1970-01-02.jpeg",
        alt |-> <<" ", "a">>]>>}

\* the JSON object the chat completion may answer with
ModelAnswers == [tweet : TweetTexts, images : SelectedImages]

\* the loop over sel_images: entries with a url, their alt stripped
RECURSIVE KeptImages(_)
KeptImages(sel) ==
    IF sel = <<>> THEN <<>>
    ELSE (IF Head(sel).url # ""
          THEN <<[url |-> Head(sel).url, alt |-> Strip(Head(sel).alt)]>>
          ELSE <<>>)
         \o KeptImages(Tail(sel))

\* the snapshot this stage loads as src
TweetifyInput == lastPost

\* the output shape with url and published_at taken from the model's answer
\* instead of src
TweetifyOutOfAnswer(src, parsed, tweet_max) ==
    [content |-> soft_trim(parsed.tweet, tweet_max),
     url |-> "",
     published_at |-> "",
     images |-> KeptImages(parsed.images),
     seo |-> NoSeo]

\* the output shape: content, url, published_at, images
TweetifyOut(src, parsed, tweet_max) ==
    [content |-> soft_trim(parsed.tweet, tweet_max),
     url |-> src.url,
     published_at |-> src.published_at,
     images |-> KeptImages(parsed.images),
     seo |-> NoSeo]

\* main up to pick_prompt: key, model, budgets, src. Nothing here compares src
\* with tweet.json
TweetifyLoad ==
    /\ stage = "tweetify_post"
    /\ pc = "start"
    /\ \E envOk \in BOOLEAN :
        IF envOk /\ TweetifyInput.st = "ok"
        THEN /\ data' = TweetifyInput.doc
             /\ io' = Append(io, Io("tweetify_post", "read", "last_linkedin_post.json"))
             /\ pc' = "prompts"
             /\ UNCHANGED exitCode
        ELSE /\ Exit(1)
             /\ UNCHANGED <<data, io>>
    /\ UNCHANGED <<files, force, prompts, cmd, fnVars, orchVars, stage, idx, resp, promptSet, mediaIds>>
    /\ UNCHANGED <<guard, calls, published>>

\* prompts_doc = load_json(PROMPTS_PATH); prompt = pick_prompt(prompts_doc), up
\* to the OpenAI call: a prompt set, or exit code 1
TweetifyPrompts ==
    /\ stage = "tweetify_post"
    /\ pc = "prompts"
    /\ LET r == pick_prompt(prompts)
       IN  IF r.ok
           THEN /\ promptSet' = r.set
                /\ pc' = "call"
                /\ UNCHANGED exitCode
           ELSE /\ Exit(1)
                /\ UNCHANGED promptSet
    /\ UNCHANGED <<files, force, prompts, cmd, fnVars, orchVars, stage, data, idx, resp, mediaIds>>
    /\ UNCHANGED logVars

\* the chat completion and json.loads of its content, in one try: any
\* exception ends the stage with exit code 1
TweetifyCall ==
    /\ stage = "tweetify_post"
    /\ pc = "call"
    /\ \/ \E parsed \in ModelAnswers, tweet_max \in TweetBudgets :
            /\ calls' = Append(calls, Call("tweet", 0, TRUE))
            /\ data' = TweetifyOut(data, parsed, tweet_max)
            /\ pc' = "write"
            /\ UNCHANGED exitCode
       \/ /\ calls' = Append(calls, Call("tweet", 0, FALSE))
          /\ Exit(1)
          /\ UNCHANGED data
    /\ UNCHANGED <<files, force, prompts, cmd, fnVars, orchVars, stage, idx, resp, promptSet, mediaIds>>
    /\ UNCHANGED <<guard, io, published>>

\* OUTPUT_PATH.write_text: a failed write ends the stage with exit code 1
TweetifyWrite ==
    /\ stage = "tweetify_post"
    /\ pc = "write"
    /\ \/ /\ tweet' = FileOf(data)
          /\ io' = Append(io, Io("tweetify_post", "write", "tweet.json"))
          /\ Exit(0)
       \/ /\ Exit(1)
          /\ UNCHANGED <<tweet, io>>
    /\ UNCHANGED <<lastPost, enriched, rootTweet, force, prompts, cmd, fnVars, orchVars, stage, data, idx, resp, promptSet, mediaIds>>
    /\ UNCHANGED <<guard, calls, published>>

\* --------------------------------------------------------- tweetify_post

\* the text the Responses API may answer with: nothing, marked-up text with a
\* hashtag, bold markers around underscores, a fenced text
RootModelTexts ==
    {<<>>,
     <<"*", "*", "a", "*", "*", " ", "#", "b">>,
     <<"*", "_", "_", "*">>,
     <<Backtick, Backtick, Backtick, "a", " ", "b", Backtick, Backtick, Backtick>>}

\* INPUT_ENRICHED if it exists, else INPUT_FALLBACK
RootTweetifyInput == IF enriched.st # "missing" THEN enriched ELSE lastPost

RootTweetifyInputName ==
    IF enriched.st # "missing" THEN "last_linkedin_post.enriched.json"
    ELSE "last_linkedin_post.json"

\* tweet_text: generate_tweet's, or the trimmed source text when that is empty
RootTweetText(text, source_text, tweet_max) ==
    IF generate_tweet(text, tweet_max) = <<>>
    THEN root_soft_trim(source_text, tweet_max)
    ELSE generate_tweet(text, tweet_max)

\* out = dict(data); out.pop("seo", None); out["content"] = tweet_text
RootTweetifyOut(doc, tweet_text) ==
    [doc EXCEPT !.seo = NoSeo, !.content = tweet_text]

\* main up to load_tweet_prompts: the key, the input snapshot
RootTweetifyLoad ==
    /\ stage = "root_tweetify_post"
    /\ pc = "start"
    /\ \E keyOk \in BOOLEAN :
        IF keyOk /\ RootTweetifyInput.st = "ok"
        THEN /\ data' = RootTweetifyInput.doc
             /\ io' = Append(io, Io("root_tweetify_post", "read", RootTweetifyInputName))
             /\ pc' = "prompts"
             /\ UNCHANGED exitCode
        ELSE /\ Exit(1)
             /\ UNCHANGED <<data, io>>
    /\ UNCHANGED <<files, force, prompts, cmd, fnVars, orchVars, stage, idx, resp, promptSet, mediaIds>>
    /\ UNCHANGED <<guard, calls, published>>

\* prompts = load_tweet_prompts(), up to client = OpenAI()
RootTweetifyPrompts ==
    /\ stage = "root_tweetify_post"
    /\ pc = "prompts"
    /\ LET r == load_tweet_prompts(prompts)
       IN  IF r.ok
           THEN /\ promptSet' = r.set
                /\ pc' = "call"
                /\ UNCHANGED exitCode
           ELSE /\ Exit(1)
                /\ UNCHANGED promptSet
    /\ UNCHANGED <<files, force, prompts, cmd, fnVars, orchVars, stage, data, idx, resp, mediaIds>>
    /\ UNCHANGED logVars

\* generate_tweet, the fallback and the output Document; any exception ends
\* the stage with exit code 1
RootTweetifyCall ==
    /\ stage = "root_tweetify_post"
    /\ pc = "call"
    /\ \/ \E text \in RootModelTexts, tweet_max \in TweetBudgets :
            /\ calls' = Append(calls, Call("tweet", 0, TRUE))
            /\ data' = RootTweetifyOut(data,
                            RootTweetText(text, strip_html_to_text(data.content), tweet_max))
            /\ pc' = "write"
            /\ UNCHANGED exitCode
       \/ /\ calls' = Append(calls, Call("tweet", 0, FALSE))
          /\ Exit(1)
          /\ UNCHANGED data
    /\ UNCHANGED <<files, force, prompts, cmd, fnVars, orchVars, stage, idx, resp, promptSet, mediaIds>>
    /\ UNCHANGED <<guard, io, published>>

\* OUTPUT_TWEET.write_text: tweet.json of the repository root
RootTweetifyWrite ==
    /\ stage = "root_tweetify_post"
    /\ pc = "write"
    /\ \/ /\ rootTweet' = FileOf(data)
          /\ io' = Append(io, Io("root_tweetify_post", "write", "tweet.json (repository root)"))
          /\ Exit(0)
       \/ /\ Exit(1)
          /\ UNCHANGED <<rootTweet, io>>
    /\ UNCHANGED <<lastPost, enriched, tweet, force, prompts, cmd, fnVars, orchVars, stage, data, idx, resp, promptSet, mediaIds>>
    /\ UNCHANGED <<guard, calls, published>>

\* ----------------------------------------------------- Twitter/post_tweet

\* main up to the early exit: credentials, tweet.json exists and parses
PublishLoad ==
    /\ stage = "post_tweet"
    /\ pc = "start"
    /\ \E credsOk \in BOOLEAN :
        IF credsOk /\ tweet.st = "ok"
        THEN /\ data' = tweet.doc
             /\ io' = Append(io, Io("post_tweet", "read", "tweet.json"))
             /\ pc' = "guard"
             /\ UNCHANGED exitCode
        ELSE /\ Exit(1)
             /\ UNCHANGED <<data, io>>
    /\ UNCHANGED <<files, force, prompts, cmd, fnVars, orchVars, stage, idx, resp, promptSet, mediaIds>>
    /\ UNCHANGED <<guard, calls, published>>

\* (last_src or {}).get("url", ""): a missing or unparsable marker gives ""
LastUrlField == IF lastPost.st = "ok" THEN lastPost.doc.url ELSE ""

\* the early exit without its FORCE_POST test
GuardSkipsIgnoringForce(forced, tweet_url_field, last_url_field) ==
    /\ tweet_url_field # ""
    /\ last_url_field # ""
    /\ tweet_url_field = last_url_field

\* the condition of the early exit
GuardSkips(forced, tweet_url_field, last_url_field) ==
    /\ ~forced
    /\ tweet_url_field # ""
    /\ last_url_field # ""
    /\ tweet_url_field = last_url_field

\* tweet_data.get("content", "").strip()
TweetText(doc) == Strip(doc.content)

\* the early exit printing its message without sys.exit(0)
PublishGuardFallsThrough ==
    /\ stage = "post_tweet"
    /\ pc = "guard"
    /\ guard' = IF GuardSkips(force, data.url, LastUrlField) THEN "skip" ELSE "proceed"
    /\ \E authOk \in BOOLEAN :
        IF TweetText(data) # <<>> /\ authOk
        THEN /\ pc' = "upload"
             /\ idx' = 1
             /\ mediaIds' = <<>>
             /\ UNCHANGED exitCode
        ELSE /\ Exit(1)
             /\ UNCHANGED <<idx, mediaIds>>
    /\ UNCHANGED <<files, force, prompts, cmd, fnVars, orchVars, stage, data, resp, promptSet>>
    /\ UNCHANGED <<calls, io, published>>

\* the early exit, the empty-text exit and the authentication
PublishGuard ==
    /\ stage = "post_tweet"
    /\ pc = "guard"
    /\ IF GuardSkips(force, data.url, LastUrlField)
       THEN /\ guard' = "skip"
            /\ Exit(0)
            /\ UNCHANGED <<idx, mediaIds>>
       ELSE /\ guard' = "proceed"
            /\ \E authOk \in BOOLEAN :
                IF TweetText(data) # <<>> /\ authOk
                THEN /\ pc' = "upload"
                     /\ idx' = 1
                     /\ mediaIds' = <<>>
                     /\ UNCHANGED exitCode
                ELSE /\ Exit(1)
                     /\ UNCHANGED <<idx, mediaIds>>
    /\ UNCHANGED <<files, force, prompts, cmd, fnVars, orchVars, stage, data, resp, promptSet>>
    /\ UNCHANGED <<calls, io, published>>

\* media.media_id_string of the upload of image i
MediaId(i) == i

\* the calls upload_image makes for image i, by how far it gets
UploadCalls(i, outcome) ==
    CASE outcome = "download_failed" -> <<Call("download", i, FALSE)>>
      [] outcome = "upload_failed" ->
            <<Call("download", i, TRUE), Call("media_upload", i, FALSE)>>
      [] outcome = "alt_failed" ->
            <<Call("download", i, TRUE), Call("media_upload", i, TRUE),
              Call("create_media_metadata", i, FALSE)>>
      [] outcome = "ok_alt" ->
            <<Call("download", i, TRUE), Call("media_upload", i, TRUE),
              Call("create_media_metadata", i, TRUE)>>
      [] outcome = "ok" ->
            <<Call("download", i, TRUE), Call("media_upload", i, TRUE)>>

\* how upload_image may end for an image: alt text is attached only when the
\* image carries some
UploadOutcomes(img) ==
    IF img.alt # <<>>
    THEN {"download_failed", "upload_failed", "alt_failed", "ok_alt"}
    ELSE {"download_failed", "upload_failed", "ok"}

\* upload_image returns the media id only when nothing raised
Uploaded(outcome) == outcome \in {"ok", "ok_alt"}

\* media_ids.insert(0, media_id) in place of append
CollectInFront(ids, i, outcome) ==
    IF Uploaded(outcome) THEN <<MediaId(i)>> \o ids ELSE ids

\* media_ids after the loop body ran for image i
Collect(ids, i, outcome) ==
    IF Uploaded(outcome) THEN Append(ids, MediaId(i)) ELSE ids

\* step 4, one image: upload_image and the append
PublishUpload ==
    /\ stage = "post_tweet"
    /\ pc = "upload"
    /\ idx <= Len(data.images)
    /\ idx' = idx + 1
    /\ IF data.images[idx].url = ""
       THEN UNCHANGED <<calls, mediaIds>>
       ELSE \E outcome \in UploadOutcomes(data.images[idx]) :
                /\ calls' = calls \o UploadCalls(idx, outcome)
                /\ mediaIds' = Collect(mediaIds, idx, outcome)
    /\ UNCHANGED <<files, force, prompts, cmd, fnVars, orchVars, stage, pc, exitCode, data, resp, promptSet>>
    /\ UNCHANGED <<guard, io, published>>

\* the arguments of client_v2.create_tweet
CreateArgs(doc, ids, ok) ==
    [svc |-> "create_tweet", img |-> 0, ok |-> ok, text |-> TweetText(doc), media |-> ids]

\* step 5: create_tweet; Forbidden (duplicate content or not) and any other
\* exception end the stage with exit code 1
PublishCreate ==
    /\ stage = "post_tweet"
    /\ pc = "upload"
    /\ idx > Len(data.images)
    /\ \/ /\ calls' = Append(calls, CreateArgs(data, mediaIds, TRUE))
          /\ published' = published \cup {data.url}
          /\ Exit(0)
       \/ /\ calls' = Append(calls, CreateArgs(data, mediaIds, FALSE))
          /\ Exit(1)
          /\ UNCHANGED published
    /\ UNCHANGED <<files, force, prompts, cmd, fnVars, orchVars, stage, data, idx, resp, promptSet, mediaIds>>
    /\ UNCHANGED <<guard, io>>

\* ------------------------------------------------------------ the launch

\* no helper function is applied on its own
NoFn ==
    /\ fnName = "none"
    /\ fnIn = <<>>
    /\ fnLimit = 0
    /\ fnOut = <<>>

\* snapshots an earlier run of the pipeline left behind
PriorPost ==
    MakeDoc(HtmlContent(TextOf("p1")), PostUrl("p1"), IsoFormat(86400000), <<>>)

PriorTweet(u) == MakeDoc(<<"a">>, u, IsoFormat(86400000), <<>>)

\* images as post_tweet sees them: with or without a url, with or without alt
PublishImages == [url : ImageUrls, alt : {<<>>, <<"a">>}]

\* last_linkedin_post.json at launch, by command
LastPostInputs(c) ==
    CASE c \in {"run_pipeline", "fetch_posts"} -> {Missing, FileOf(PriorPost)}
      [] c = "enrich_post" ->
            {Missing, Corrupt} \cup
            {FileOf(MakeDoc(PriorPost.content, PriorPost.url, PriorPost.published_at, il)) :
                il \in SeqsUpTo(Images, MaxImages)}
      [] c = "tweetify_post" ->
            {Missing, Corrupt} \cup
            {FileOf(MakeDoc(PriorPost.content, u, PriorPost.published_at, <<>>)) : u \in Urls}
      [] c = "post_tweet" ->
            {Missing, Corrupt} \cup
            {FileOf(MakeDoc(PriorPost.content, u, PriorPost.published_at, <<>>)) : u \in Urls}
      [] c = "root_tweetify_post" -> {Missing, FileOf(PriorPost)}

\* last_linkedin_post.enriched.json at launch, by command: only
\* tweetify_post.py of the repository root reads it
EnrichedInputs(c) ==
    IF c = "root_tweetify_post"
    THEN {Missing, Corrupt} \cup
         {FileOf([PriorPost EXCEPT
                    !.images = il,
                    !.seo = [present |-> TRUE, headline |-> <<"h">>, description |-> <<"d">>]]) :
             il \in SeqsUpTo(Images, MaxImages)}
    ELSE {Missing}

\* tweet.json at launch, by command
TweetInputs(c) ==
    CASE c \in {"run_pipeline", "tweetify_post"} ->
            {Missing, FileOf(PriorTweet(PostUrl("p1"))), FileOf(PriorTweet(PostUrl("p2")))}
      [] c \in {"fetch_posts", "enrich_post", "root_tweetify_post"} -> {Missing}
      [] c = "post_tweet" ->
            {Missing, Corrupt} \cup
            {FileOf(MakeDoc(t, u, PriorPost.published_at, il)) :
                t \in Contents, u \in Urls, il \in SeqsUpTo(PublishImages, MaxImages)}

Init ==
    /\ cmd \in Commands
    /\ lastPost \in LastPostInputs(cmd)
    /\ enriched \in EnrichedInputs(cmd)
    /\ tweet \in TweetInputs(cmd)
    /\ force \in BOOLEAN
    /\ orch = IF cmd = "run_pipeline" THEN "ready" ELSE "none"
    /\ invoked = <<>>
    /\ exits = <<>>
    /\ stage = IF cmd = "run_pipeline" THEN "none" ELSE cmd
    /\ pc = "start"
    /\ exitCode = -1
    /\ data = NullDoc
    /\ idx = 0
    /\ resp = NullResp
    /\ mediaIds = <<>>
    /\ guard = "none"
    /\ calls = <<>>
    /\ io = <<>>
    /\ published \in IF tweet.st = "ok" /\ tweet.doc.url # ""
                      THEN {{}, {tweet.doc.url}}
                      ELSE {{}}
    /\ rootTweet = Missing
    /\ prompts \in {GoodPrompts, NoPrompts}
    /\ promptSet = NoPromptSet
    /\ NoFn

Next ==
    \/ RunScript
    \/ ScriptReturned
    \/ FetchMain
    \/ EnrichLoad
    \/ EnrichPrompts
    \/ EnrichSeo
    \/ EnrichAlt
    \/ EnrichWrite
    \/ TweetifyLoad
    \/ TweetifyPrompts
    \/ TweetifyCall
    \/ TweetifyWrite
    \/ RootTweetifyLoad
    \/ RootTweetifyPrompts
    \/ RootTweetifyCall
    \/ RootTweetifyWrite
    \/ PublishLoad
    \/ PublishGuard
    \/ PublishUpload
    \/ PublishCreate

Spec == Init /\ [][Next]_vars

\* ------------------------------------------------ the helpers on their own

\* no command is launched: the repository and the processes stay as they are
NoLaunch ==
    /\ cmd = "none"
    /\ lastPost = Missing
    /\ enriched = Missing
    /\ tweet = Missing
    /\ rootTweet = Missing
    /\ force = FALSE
    /\ prompts = NoPrompts
    /\ orch = "none"
    /\ invoked = <<>>
    /\ exits = <<>>
    /\ stage = "none"
    /\ pc = "start"
    /\ exitCode = -1
    /\ data = NullDoc
    /\ idx = 0
    /\ resp = NullResp
    /\ promptSet = NoPromptSet
    /\ mediaIds = <<>>
    /\ guard = "none"
    /\ calls = <<>>
    /\ io = <<>>
    /\ published = {}

launchVars == <<files, force, prompts, cmd, orchVars, procVars, logVars>>

TextChars == {"a", " ", "\t", "\n", "."}

Texts == SeqsUpTo(TextChars, MaxLen)

\* s * n
Repeat(s, n) == [i \in 1..(n * Len(s)) |-> s[((i - 1) % Len(s)) + 1]]

\* texts longer than every limit of the program: one word, words with
\* punctuation, words with tabs
LongTexts ==
    {Repeat(<<"a">>, 300), Repeat(<<"a", ",", " ">>, 100),
     Repeat(<<"a", "\t", "b", " ">>, 75)}

ProgramLimits == {HEADLINE_MAX, DESC_MAX, DEFAULT_TWEET_MAX, DEFAULT_MAX_CHARS}

\* the three soft_trim functions applied to their own argument each
SoftTrims(e, r, t, limit) ==
    [enrich |-> enrich_soft_trim(e, limit),
     root |-> root_soft_trim(r, limit),
     twitter |-> soft_trim(t, limit)]

InitTrim ==
    /\ NoLaunch
    /\ fnName \in {"soft_trim", "fields"}
    /\ \/ fnIn \in Texts /\ fnLimit \in 1..MaxLimit
       \/ fnIn \in LongTexts /\ fnLimit \in ProgramLimits
    /\ fnOut = <<>>

\* soft_trim(s, limit)
SoftTrimOnce ==
    /\ fnName = "soft_trim"
    /\ fnOut = <<>>
    /\ fnOut' = <<SoftTrims(fnIn, fnIn, fnIn, fnLimit)>>
    /\ UNCHANGED <<launchVars, fnName, fnIn, fnLimit>>

\* soft_trim(soft_trim(s, limit), limit)
SoftTrimAgain ==
    /\ fnName = "soft_trim"
    /\ Len(fnOut) = 1
    /\ fnOut' = Append(fnOut, SoftTrims(fnOut[1].enrich, fnOut[1].root,
                                        fnOut[1].twitter, fnLimit))
    /\ UNCHANGED <<launchVars, fnName, fnIn, fnLimit>>

\* the trimmed fields the stages write when the model answers with fnIn:
\* seo.headline and seo.description of enrich_post, content of
\* Twitter/tweetify_post under the budget fnLimit
TrimmedFields ==
    /\ fnName = "fields"
    /\ fnOut = <<>>
    /\ fnOut' = <<[headline |-> SeoField(fnIn, HEADLINE_MAX),
                   description |-> SeoField(fnIn, DESC_MAX),
                   content |-> TweetifyOut(NullDoc, [tweet |-> fnIn, images |-> <<>>],
                                           fnLimit).content]>>
    /\ UNCHANGED <<launchVars, fnName, fnIn, fnLimit>>

NextTrim ==
    \/ SoftTrimOnce
    \/ SoftTrimAgain
    \/ TrimmedFields

SpecTrim == InitTrim /\ [][NextTrim]_vars

\* markup is made of tags, character references with and without their ";",
\* stray brackets and ampersands, whitespace and letters
HtmlPieces ==
    {<<"<", "b", ">">>, <<"&", "l", "t", ";">>, <<"&", "g", "t", ";">>,
     <<"&", "n", "b", "s", "p", ";">>, <<"&", "a", "m", "p", ";">>,
     <<"&", "l", "t">>, <<"<">>, <<">">>, <<"&">>, <<";">>, <<" ">>, <<"\n">>, <<"a">>}

RECURSIVE Concat(_)
Concat(ps) == IF ps = <<>> THEN <<>> ELSE Head(ps) \o Concat(Tail(ps))

HtmlTexts == {Concat(ps) : ps \in SeqsUpTo(HtmlPieces, MaxPieces)}

InitHtml ==
    /\ NoLaunch
    /\ fnName = "strip_html_to_text"
    /\ fnIn \in HtmlTexts
    /\ fnLimit = 0
    /\ fnOut = <<>>

\* strip_html_to_text(s)
StripHtml ==
    /\ fnName = "strip_html_to_text"
    /\ fnOut = <<>>
    /\ fnOut' = <<strip_html_to_text(fnIn)>>
    /\ UNCHANGED <<launchVars, fnName, fnIn, fnLimit>>

NextHtml == StripHtml

SpecHtml == InitHtml /\ [][NextHtml]_vars

\* the texts of JSON: "text", "key": value, { members }
Quoted(t) == <<"\"">> \o t \o <<"\"">>

Member(key, value) == Quoted(key) \o <<":">> \o value

Object(members) == <<"{">> \o members \o <<"}">>

\* what the model answers is made of mappings with one field, with both
\* fields (the second one to be sanitized), with a number for a field, of
\* stray braces and brackets and of prose
SeoPieces ==
    {Object(Member(HeadlineKey, Quoted(<<"H">>))),
     Object(Member(HeadlineKey, Quoted(<<"H">>)) \o <<",", " ">>
            \o Member(DescriptionKey, Quoted(<<"_", "_", "D", " ", " ", "d", "_", "_">>))),
     Object(Member(HeadlineKey, <<"5">>)),
     <<"{">>, <<"}">>, <<"[">>, <<"]">>, <<"x">>}

\* the fences around an answer: none, bare, with the tag, with the tag and
\* line breaks
Fences ==
    {<<<<>>, <<>>>>,
     <<<<Backtick, Backtick, Backtick>>, <<Backtick, Backtick, Backtick>>>>,
     <<<<Backtick, Backtick, Backtick, "j", "s", "o", "n", "\n">>,
       <<"\n", Backtick, Backtick, Backtick>>>>,
     <<<<Backtick, Backtick, Backtick, "J", "S", "O", "N">>, <<>>>>}

SeoTexts ==
    {f[1] \o Concat(ps) \o f[2] : f \in Fences, ps \in SeqsUpTo(SeoPieces, MaxPieces)}

InitSeo ==
    /\ NoLaunch
    /\ fnName = "generate_seo_fields"
    /\ fnIn \in SeoTexts
    /\ fnLimit = 0
    /\ fnOut = <<>>

\* generate_seo_fields on the text of the model's answer
SeoParse ==
    /\ fnName = "generate_seo_fields"
    /\ fnOut = <<>>
    /\ fnOut' = <<generate_seo_fields(fnIn)>>
    /\ UNCHANGED <<launchVars, fnName, fnIn, fnLimit>>

NextSeo == SeoParse

SpecSeo == InitSeo /\ [][NextSeo]_vars

\* a template is made of markers of known keys, a marker of no key, stray
\* braces, a key without braces and a letter
FillPieces ==
    {Marker(CONTENT), Marker(DESC_MAX_KEY), Marker(TITLE_MAX_KEY), Marker(<<"X">>),
     <<"{">>, <<"}">>, DESC_MAX_KEY, <<"a">>}

CurlyPieces ==
    {CurlyMarker(linkedin_post_text), CurlyMarker(image_urls), CurlyMarker(<<"X">>),
     Marker(image_urls), <<"{">>, <<"}">>, image_urls, <<"a">>}

\* the text of a post: plain, or holding what looks like a marker or a part
\* of one
PlainTexts ==
    {<<"a">>, Marker(DESC_MAX_KEY), Marker(CONTENT), <<"{">>, DESC_MAX_KEY \o <<"}">>}

SrcTexts ==
    {<<"a">>, CurlyMarker(image_urls), CurlyMarker(linkedin_post_text), <<"{", "{">>}

\* as_newline_list(image_urls) if image_urls else "None"
UrlLists == {<<"N", "o", "n", "e">>, <<"u">>, CurlyMarker(linkedin_post_text)}

InitFill ==
    /\ NoLaunch
    /\ \/ /\ fnName = "fill_placeholders"
          /\ fnIn \in [template : {Concat(ps) : ps \in SeqsUpTo(FillPieces, MaxPieces)},
                       text : PlainTexts, urls : {<<>>}]
       \/ /\ fnName = "apply_curly_placeholders"
          /\ fnIn \in [template : {Concat(ps) : ps \in SeqsUpTo(CurlyPieces, MaxPieces)},
                       text : SrcTexts, urls : UrlLists]
    /\ fnLimit = 0
    /\ fnOut = <<>>

\* generate_seo_fields: user_msg
FillSeoUser ==
    /\ fnName = "fill_placeholders"
    /\ fnOut = <<>>
    /\ fnOut' = <<fill_placeholders(fnIn.template, SeoMapping(fnIn.text))>>
    /\ UNCHANGED <<launchVars, fnName, fnIn, fnLimit>>

\* Twitter/tweetify_post.main: user_msg before the reminder is appended
FillTweetUser ==
    /\ fnName = "apply_curly_placeholders"
    /\ fnOut = <<>>
    /\ fnOut' = <<apply_curly_placeholders(fnIn.template, TweetMapping(fnIn.text, fnIn.urls))>>
    /\ UNCHANGED <<launchVars, fnName, fnIn, fnLimit>>

NextFill == FillSeoUser \/ FillTweetUser

SpecFill == InitFill /\ [][NextFill]_vars

\* a stage that resolves a prompt set, launched on its own on a repository
\* whose input snapshot is there, with any prompts.json and selector
InitPrompts ==
    /\ cmd \in {"enrich_post", "tweetify_post", "root_tweetify_post"}
    /\ lastPost = FileOf(PriorPost)
    /\ enriched = Missing
    /\ tweet = Missing
    /\ rootTweet = Missing
    /\ force = FALSE
    /\ \E selector \in Selectors :
        IF cmd = "enrich_post"
        THEN \E sets \in PromptArrays(EnrichKeys, {"seo_system", "alt_user"}) :
                prompts = PromptsDoc(sets, GoodTweetArray, selector)
        ELSE \E sets \in PromptArrays(TweetKeys, TweetKeys) :
                prompts = PromptsDoc(GoodEnrichArray, sets, selector)
    /\ orch = "none"
    /\ invoked = <<>>
    /\ exits = <<>>
    /\ stage = cmd
    /\ pc = "start"
    /\ exitCode = -1
    /\ data = NullDoc
    /\ idx = 0
    /\ resp = NullResp
    /\ promptSet = NoPromptSet
    /\ mediaIds = <<>>
    /\ guard = "none"
    /\ calls = <<>>
    /\ io = <<>>
    /\ published = {}
    /\ NoFn

\* each stage up to and with its first model call
NextPrompts ==
    \/ EnrichLoad
    \/ EnrichPrompts
    \/ EnrichSeo
    \/ TweetifyLoad
    \/ TweetifyPrompts
    \/ TweetifyCall
    \/ RootTweetifyLoad
    \/ RootTweetifyPrompts
    \/ RootTweetifyCall

SpecPrompts == InitPrompts /\ [][NextPrompts]_vars

\* ------------------------------------------------------------ properties

CallsTo(svcs) == {i \in DOMAIN calls : calls[i].svc \in svcs}

PublishServices == {"download", "media_upload", "create_media_metadata", "create_tweet"}

\* the urls of tweet.json and of last_linkedin_post.json are non-empty and equal
SameSourceUrl ==
    /\ tweet.st = "ok"
    /\ lastPost.st = "ok"
    /\ tweet.doc.url # ""
    /\ lastPost.doc.url # ""
    /\ tweet.doc.url = lastPost.doc.url

\* C1: post_tweet's early exit decides "skip" exactly when FORCE_POST is unset
\* and the urls of tweet.json and of the marker last_linkedin_post.json are both
\* non-empty and equal; a missing or unparsable marker, an empty url on either
\* side or the override give "do not skip".
C1_GuardSkipsIff ==
    guard # "none" => (guard = "skip" <=> (~force /\ SameSourceUrl))

\* post_tweet alone has skipped, and nothing forced it otherwise
C1_Witness ==
    /\ cmd = "post_tweet"
    /\ guard = "skip"
    /\ pc = "done"

\* C2: a run in which the early exit decided "skip" ends post_tweet with exit
\* code 0 in that same step and never calls the download, the media upload, the
\* alt-text attachment or create_tweet.
C2_SkipMakesNoPublishCall ==
    guard = "skip" =>
        /\ CallsTo(PublishServices) = {}
        /\ pc = "done"
        /\ exitCode = 0
        /\ Len(exits) = Len(Stages) => exits[Len(Stages)] = 0

\* post_tweet skipped a tweet that has text and images to upload
C2_Witness ==
    /\ guard = "skip"
    /\ pc = "done"
    /\ TweetText(tweet.doc) # <<>>
    /\ \E i \in DOMAIN tweet.doc.images : tweet.doc.images[i].url # ""

\* C3: an orchestrated run with FORCE_POST unset in which fetch_posts wrote a
\* Document whose url was never published, and in which every call succeeded
\* and every stage exited 0, has called create_tweet.
C3_NewPostIsPublished ==
    ( /\ cmd = "run_pipeline"
      /\ orch = "done"
      /\ ~force
      /\ \E i \in DOMAIN io : io[i] = Io("fetch_posts", "write", "last_linkedin_post.json")
      /\ lastPost.doc.url # ""
      /\ lastPost.doc.url \notin published
      /\ \A i \in DOMAIN calls : calls[i].ok )
    => CallsTo({"create_tweet"}) # {}

\* C4: run_pipeline starts the scripts in the order fetch, enrich, tweetify,
\* post, each at most once and each only after the one before it returned 0; a
\* non-zero return code or a missing script ends the orchestrator as failed
\* with nothing started afterwards; it reports success only after four zeros.
C4_StageOrder ==
    cmd = "run_pipeline" =>
        /\ Len(invoked) <= Len(Stages)
        /\ \A i \in DOMAIN invoked : invoked[i] = Stages[i]
        /\ Len(exits) \in {Len(invoked), Len(invoked) - 1}
        /\ \A i \in DOMAIN invoked : i > 1 => exits[i - 1] = 0
        /\ (\E i \in DOMAIN exits : exits[i] # 0) =>
                (orch = "failed" /\ Len(invoked) = Len(exits) /\ stage = "none")
        /\ orch = "failed" => stage = "none"
        /\ orch = "done" =>
                (Len(exits) = Len(Stages) /\ \A i \in DOMAIN exits : exits[i] = 0)
        /\ stage # "none" => (orch = "waiting" /\ stage = invoked[Len(invoked)])

\* enrich_post returned 1 and the orchestrator stopped with two scripts started
C4_Witness ==
    /\ cmd = "run_pipeline"
    /\ orch = "failed"
    /\ invoked = <<"fetch_posts", "enrich_post">>
    /\ exits = <<0, 1>>

\* C5: a failed stage-level call (the change-log query, the SEO call, the
\* rewrite call) is the last call of the run: its stage ends at once with a
\* non-zero exit code, and no later stage calls anything.
C5_StageCallFailureIsFatal ==
    \A i \in CallsTo({"changelog", "seo", "tweet"}) :
        ~calls[i].ok => (i = Len(calls) /\ pc = "done" /\ exitCode # 0)

\* C6: when the early-exit condition holds as tweetify_post starts (FORCE_POST
\* unset, the urls of tweet.json and last_linkedin_post.json non-empty and
\* equal), tweetify_post makes no generative call. The state looked at is the
\* one after the call and before tweet.json is rewritten.
C6_RepurposeGuardsFirst ==
    ( /\ stage = "tweetify_post"
      /\ pc = "write"
      /\ ~force
      /\ SameSourceUrl )
    => CallsTo({"tweet"}) = {}

\* the snapshot a stage wrote in this run, "none" when it wrote none
WrittenBy(s) ==
    IF \E i \in DOMAIN io : io[i].stage = s /\ io[i].op = "write"
    THEN (CHOOSE e \in {io[i] : i \in DOMAIN io} : e.stage = s /\ e.op = "write").file
    ELSE "none"

\* C7: in an orchestrated run every stage after fetch_posts reads the snapshot
\* that the stage started just before it wrote in this run.
C7_ReadsPredecessorOutput ==
    cmd = "run_pipeline" =>
        \A i \in DOMAIN io : \A k \in 2..Len(Stages) :
            ( /\ io[i].op = "read"
              /\ io[i].stage = Stages[k]
              /\ WrittenBy(Stages[k - 1]) # "none" )
            => io[i].file = WrittenBy(Stages[k - 1])

\* the images array enrich_post loaded (it never writes last_linkedin_post.json)
EnrichInputImages == lastPost.doc.images

AltCallsFor(i) == {j \in DOMAIN calls : calls[j].svc = "alt" /\ calls[j].img = i}

EnrichRan == stage = "enrich_post" /\ pc \in {"alt", "done"} /\ idx >= 1

EnrichWrote == EnrichRan /\ pc = "done" /\ exitCode = 0

\* C8 as stated: an image whose alt is non-empty is never passed to the alt-text
\* generator and keeps its alt in the output; an image whose alt is empty is
\* passed to it exactly once.
C8_AltOnlyForEmptyAlt ==
    EnrichRan =>
        \A i \in DOMAIN EnrichInputImages :
            LET img == EnrichInputImages[i]
            IN  /\ img.alt # <<>> =>
                    /\ AltCallsFor(i) = {}
                    /\ EnrichWrote => enriched.doc.images[i].alt = img.alt
                /\ (img.alt = <<>> /\ idx > i) => Cardinality(AltCallsFor(i)) = 1

\* C8 as the code has it: an image without a url, or whose alt is not blank
\* (non-empty once stripped of whitespace), is never passed to the alt-text
\* generator and keeps its alt in the output; an image with a url whose alt is
\* empty or only whitespace is passed to it exactly once when the loop reaches it.
C8_AltOnlyForBlankAlt ==
    EnrichRan =>
        \A i \in DOMAIN EnrichInputImages :
            LET img == EnrichInputImages[i]
                blank == Strip(img.alt) = <<>>
            IN  /\ (img.url = "" \/ ~blank) =>
                    /\ AltCallsFor(i) = {}
                    /\ data.images[i].alt = img.alt
                    /\ EnrichWrote => enriched.doc.images[i].alt = img.alt
                /\ (img.url # "" /\ blank) =>
                    Cardinality(AltCallsFor(i)) = IF idx > i THEN 1 ELSE 0

\* enrich_post wrote its snapshot after skipping an image that carries alt text
\* and asking for the alt text of one that carries none
C8_Witness ==
    /\ EnrichWrote
    /\ \E i, j \in DOMAIN EnrichInputImages :
        /\ EnrichInputImages[i].url # ""
        /\ EnrichInputImages[i].alt = <<"a">>
        /\ AltCallsFor(i) = {}
        /\ EnrichInputImages[j].url # ""
        /\ EnrichInputImages[j].alt = <<>>
        /\ Cardinality(AltCallsFor(j)) = 1

\* the images array post_tweet loaded (it never writes tweet.json)
PublishInputImages == tweet.doc.images

UploadCallsFor(i) == {j \in CallsTo({"download"}) : calls[j].img = i}

PublishRan == stage = "post_tweet" /\ pc \in {"upload", "done"} /\ idx >= 1

\* the positions in calls are in image order
InImageOrder(js) == \A a, b \in js : a < b => calls[a].img <= calls[b].img

\* C9: in enrich_post's alt loop and in post_tweet's upload loop the images are
\* taken one at a time in the Document's order; a failed call for one image
\* ends neither loop: every image before the loop position has had its call,
\* the process ends only after the last image, enrich_post by its write step
\* and post_tweet by calling create_tweet.
C9_ImageFailureTolerated ==
    /\ EnrichRan =>
        /\ InImageOrder(CallsTo({"alt"}))
        /\ \A i \in DOMAIN EnrichInputImages :
            (i < idx /\ EnrichInputImages[i].url # "" /\ Strip(EnrichInputImages[i].alt) = <<>>)
                => AltCallsFor(i) # {}
        /\ pc = "done" => idx = Len(EnrichInputImages) + 1
        /\ (pc = "done" /\ exitCode = 0) =>
                io[Len(io)] = Io("enrich_post", "write", "last_linkedin_post.enriched.json")
    /\ PublishRan =>
        /\ InImageOrder(CallsTo({"download", "media_upload", "create_media_metadata"}))
        /\ \A i \in DOMAIN PublishInputImages :
            (i < idx /\ PublishInputImages[i].url # "") => UploadCallsFor(i) # {}
        /\ pc = "done" =>
            /\ idx = Len(PublishInputImages) + 1
            /\ calls[Len(calls)].svc = "create_tweet"

\* the alt call of the first image failed, the second image still had its call
\* and enrich_post wrote its snapshot
C9_Witness ==
    /\ EnrichWrote
    /\ \E a \in AltCallsFor(1) : ~calls[a].ok
    /\ \E b \in AltCallsFor(2) : calls[b].ok

\* the images upload_image returned a media id for: downloaded, uploaded and,
\* when they carry alt text, given it
UploadedImages ==
    {i \in DOMAIN PublishInputImages :
        /\ \E j \in CallsTo({"media_upload"}) : calls[j].img = i /\ calls[j].ok
        /\ ~\E j \in CallsTo({"create_media_metadata"}) : calls[j].img = i /\ ~calls[j].ok}

RECURSIVE Ascending(_)
Ascending(S) ==
    IF S = {} THEN <<>>
    ELSE LET m == CHOOSE x \in S : \A y \in S : x <= y
         IN  <<m>> \o Ascending(S \ {m})

\* C10: create_tweet is called with the stripped content of tweet.json and the
\* media ids of exactly the images upload_image succeeded for, in image order;
\* a failed image gives no id and does not end the stage; when there were
\* images and none succeeded, create_tweet is still called, with no media.
C10_CreateGetsUploadedMedia ==
    /\ \A j \in CallsTo({"create_tweet"}) :
        /\ calls[j].text = Strip(tweet.doc.content)
        /\ calls[j].media = [k \in 1..Cardinality(UploadedImages) |->
                                MediaId(Ascending(UploadedImages)[k])]
    /\ (PublishRan /\ pc = "done") => CallsTo({"create_tweet"}) # {}
    /\ PublishRan => mediaIds = [k \in 1..Cardinality({i \in UploadedImages : i < idx}) |->
                                MediaId(Ascending({i \in UploadedImages : i < idx})[k])]

\* the first of two images failed to upload and create_tweet got the second
\* image's media id alone
C10_Witness ==
    /\ Len(PublishInputImages) = 2
    /\ \E j \in CallsTo({"create_tweet"}) : calls[j].media = <<MediaId(2)>> /\ calls[j].ok
    /\ \E j \in CallsTo({"media_upload"}) : calls[j].img = 1 /\ ~calls[j].ok

\* C11: whatever the text and the limit (at least 1), each of the three
\* soft_trim functions returns at most limit characters, on a first and on a
\* second application; the headline enrich_post writes has at most 70
\* characters, its description at most 160, and the content
\* Twitter/tweetify_post writes at most the budget.
C11_TrimmedWithinLimit ==
    /\ fnName = "soft_trim" =>
            \A i \in DOMAIN fnOut :
                /\ Len(fnOut[i].enrich) <= fnLimit
                /\ Len(fnOut[i].root) <= fnLimit
                /\ Len(fnOut[i].twitter) <= fnLimit
    /\ fnName = "fields" =>
            \A i \in DOMAIN fnOut :
                /\ Len(fnOut[i].headline) <= HEADLINE_MAX
                /\ Len(fnOut[i].description) <= DESC_MAX
                /\ Len(fnOut[i].content) <= fnLimit

\* a text of 300 characters was cut to a non-empty headline-sized one by each
\* of the three functions
C11_Witness ==
    /\ fnName = "soft_trim"
    /\ Len(fnIn) = 300
    /\ fnLimit = HEADLINE_MAX
    /\ fnOut # <<>>
    /\ fnOut[1].enrich # <<>>
    /\ fnOut[1].root # <<>>
    /\ fnOut[1].twitter # <<>>

\* C12: for each of the three soft_trim functions, whatever the text (tabs,
\* newlines and punctuation included) and the limit, a second application
\* returns what the first one returned.
C12_TrimIdempotent ==
    (fnName = "soft_trim" /\ Len(fnOut) = 2) => fnOut[2] = fnOut[1]

\* the text has no whitespace at its ends and no two whitespace characters
\* in a row
Normalized(t) ==
    /\ t # <<>> => (t[1] \notin WS /\ t[Len(t)] \notin WS)
    /\ \A i \in 1..(Len(t) - 1) : ~(t[i] \in WS /\ t[i + 1] \in WS)

HasChar(t, cs) == \E i \in DOMAIN t : t[i] \in cs

\* the angle brackets of the text come in pairs "<" ... ">" with something
\* between them
Tagged(t) ==
    LET b == SelectSeq(t, LAMBDA ch : ch \in {"<", ">"})
    IN  /\ Len(b) % 2 = 0
        /\ \A i \in DOMAIN b : b[i] = IF i % 2 = 1 THEN "<" ELSE ">"
        /\ \A i \in 1..(Len(t) - 1) : ~(t[i] = "<" /\ t[i + 1] = ">")

StageArray ==
    IF stage = "enrich_post" THEN prompts.linkedin_post_enrichment
    ELSE prompts.tweet_generation

StageSelector ==
    CASE stage = "enrich_post" -> prompts.LINKEDIN_PROMPT_PROFILE
      [] stage = "tweetify_post" -> prompts.TWEET_PROMPT_ID
      [] stage = "root_tweetify_post" -> prompts.TWEET_PROMPT_PROFILE

StageKeys == IF stage = "enrich_post" THEN EnrichKeys ELSE TweetKeys

\* the entry the selection rule names: the first one with the selector's id,
\* or the first one of the array when no selector is given or none has its id
NamedEntry ==
    LET items == StageArray.items
        withId == {i \in DOMAIN items : items[i].id = Strip(StageSelector)}
    IN  IF Strip(StageSelector) # <<>> /\ withId # {}
        THEN items[CHOOSE i \in withId : \A j \in withId : i <= j]
        ELSE items[1]

\* the stage read its input and went past its prompt resolution
PassedPrompts == io # <<>> /\ (pc \notin {"start", "prompts", "done"} \/ calls # <<>>)

\* the stage read its input and ended in its prompt resolution
FailedAtPrompts == io # <<>> /\ pc = "done" /\ calls = <<>>

\* C14: with a non-empty array, the stage goes on with the first prompt set
\* that has the selector's id, or with the first set of the array when no
\* selector is given or no set has its id (Twitter/tweetify_post with the
\* templates of that set, the other two with the set itself); a selector that
\* matches nothing is no failure: the resolution fails only when a template
\* of that very set is missing or not a string.
C14_SelectsByIdOrFirst ==
    /\ PassedPrompts =>
            /\ promptSet.tpl = NamedEntry.tpl
            /\ stage # "tweetify_post" => promptSet = NamedEntry
    /\ (FailedAtPrompts /\ StageArray.list /\ StageArray.items # <<>>) =>
            \E key \in StageKeys : NamedEntry.tpl[key].type # "str"

\* Twitter/tweetify_post went on with the templates of the second prompt set,
\* which has the id the selector names between spaces and an empty template
\* the first set has not, and made its model call
C14_Witness ==
    /\ stage = "tweetify_post"
    /\ Strip(StageSelector) = <<"b">>
    /\ Len(StageArray.items) = 2
    /\ StageArray.items[1].id = <<"a">>
    /\ StageArray.items[1].tpl # StageArray.items[2].tpl
    /\ promptSet.tpl = StageArray.items[2].tpl
    /\ calls # <<>>

\* C15: the resolution ends the stage with a non-zero exit code, before any
\* model call, whenever the array is absent or empty or a required template
\* of the chosen set is missing, not a string or the empty string; a stage
\* goes on only with a set whose required templates are non-empty strings.
C15_ValidatesTemplates ==
    /\ FailedAtPrompts => exitCode # 0
    /\ (io # <<>> /\ pc \notin {"start", "prompts"}) =>
            ( ( \/ ~StageArray.list
                \/ StageArray.items = <<>>
                \/ \E key \in StageKeys :
                        \/ NamedEntry.tpl[key].type # "str"
                        \/ NamedEntry.tpl[key].text = <<>> )
              => FailedAtPrompts )
    /\ PassedPrompts =>
            \A key \in StageKeys :
                promptSet.tpl[key].type = "str" /\ promptSet.tpl[key].text # <<>>

\* the answer with its fence removed, parsed whole, and the text between its
\* first "{" and its last "}", parsed
Unfenced == StripFence(fnIn)

Whole == Loads(Unfenced)

Braced ==
    LET open == {i \in 1..Len(Unfenced) : Unfenced[i] = "{"}
        close == {j \in 1..Len(Unfenced) : Unfenced[j] = "}"}
        first == CHOOSE i \in open : \A k \in open : i <= k
        last == CHOOSE j \in close : \A k \in close : j >= k
    IN  IF open # {} /\ close # {} /\ first < last
        THEN Loads(SubSeq(Unfenced, first, last))
        ELSE Unparsed

IsObject(v) == v.ok /\ v.kind = "obj"

\* the fields come from the object v: each one sanitized, trimmed to its limit
\* and collapsed, empty when the object has none; a field that is neither a
\* string nor empty makes generate_seo_fields raise
UsesObject(v) ==
    IF v.headline.type = "other" \/ v.description.type = "other"
    THEN fnOut[1].raised
    ELSE /\ ~fnOut[1].raised
         /\ fnOut[1].headline = SeoField(v.headline.text, HEADLINE_MAX)
         /\ fnOut[1].description = SeoField(v.description.text, DESC_MAX)

UsesDefault == fnOut[1] = SeoReturned(<<>>, <<>>)

SeoParsed == fnName = "generate_seo_fields" /\ fnOut # <<>>

\* C16 as stated: the unfenced answer is used when it parses as an object;
\* otherwise the text from its first "{" to its last "}" is used when that
\* parses as an object; otherwise both fields are empty and nothing is raised.
C16_ObjectOrBracesOrDefault ==
    SeoParsed =>
        IF IsObject(Whole) THEN UsesObject(Whole)
        ELSE IF IsObject(Braced) THEN UsesObject(Braced)
        ELSE UsesDefault

\* C16: the unfenced answer is used when it parses as an object; when it does
\* not parse at all, the text from its first "{" to its last "}" is used if
\* that parses as an object; in every other case, an answer that parses as
\* JSON of another kind included, both fields are empty and nothing is raised.
C16_BracesOnlyOnParseFailure ==
    SeoParsed =>
        IF IsObject(Whole) THEN UsesObject(Whole)
        ELSE IF ~Whole.ok /\ IsObject(Braced) THEN UsesObject(Braced)
        ELSE UsesDefault

\* an object inside prose was recovered by the scan for the braces: the
\* answer did not parse, its headline is the object's
C16_Witness ==
    /\ SeoParsed
    /\ ~Whole.ok
    /\ IsObject(Braced)
    /\ Unfenced # BraceSpan(Unfenced)
    /\ fnOut[1] = SeoReturned(<<"H">>, <<>>)

Wrote(s) == \E i \in DOMAIN io : io[i].stage = s /\ io[i].op = "write"

SameIdentity(out, in) ==
    /\ out.st = "ok"
    /\ out.doc.url = in.doc.url
    /\ out.doc.published_at = in.doc.published_at

\* C17: the snapshot that enrich_post wrote, and the one that either
\* tweetify_post wrote, has the url and the published_at of the snapshot that
\* stage read (no stage writes the file it reads, and fetch_posts, which sets
\* the two fields, runs before them).
C17_IdentityStable ==
    /\ Wrote("enrich_post") => SameIdentity(enriched, lastPost)
    /\ Wrote("tweetify_post") => SameIdentity(tweet, TweetifyInput)
    /\ Wrote("root_tweetify_post") => SameIdentity(rootTweet, RootTweetifyInput)

\* an orchestrated run fetched a post that was not in the repository before,
\* and enrich_post and tweetify_post both wrote their snapshot of it
C17_Witness ==
    /\ cmd = "run_pipeline"
    /\ Wrote("fetch_posts")
    /\ Wrote("enrich_post")
    /\ Wrote("tweetify_post")
    /\ lastPost.doc.url = PostUrl("p2")
    /\ lastPost.doc.published_at = IsoFormat(172800000)
    /\ tweet.doc.url = PostUrl("p2")

\* out has every field of in but content, and no seo
CopiedButContent(out, in) ==
    /\ out.st = "ok"
    /\ out.doc = [in.doc EXCEPT !.content = out.doc.content, !.seo = NoSeo]

\* C18: the snapshot that either tweetify_post wrote has the url, the
\* published_at and the images (url and alt, in order) of the snapshot it
\* read and no seo, and the tweet.json that post_tweet loads has no seo.
C18_RepurposeCopiesFields ==
    /\ Wrote("tweetify_post") => CopiedButContent(tweet, TweetifyInput)
    /\ Wrote("root_tweetify_post") => CopiedButContent(rootTweet, RootTweetifyInput)
    /\ (stage = "post_tweet" /\ pc # "start") => ~tweet.doc.seo.present

\* t has two of c in a row
HasPair(t, c) == \E i \in 1..(Len(t) - 1) : t[i] = c /\ t[i + 1] = c

\* t has mark with a word character right after it
HasToken(t, mark) == \E i \in 1..(Len(t) - 1) : t[i] = mark /\ t[i + 1] \in WordChars

\* sanitized text: no bold or underline marker, no hashtag, no mention, no
\* quote character, whitespace collapsed
Sanitized(t) ==
    /\ ~HasPair(t, "*")
    /\ ~HasPair(t, "_")
    /\ ~HasToken(t, "#")
    /\ ~HasToken(t, "@")
    /\ ~HasChar(t, Quotes)
    /\ Normalized(t)

\* C19: the content that either tweetify_post wrote has no "**" and no "__",
\* no hashtag, no mention and no quote character, and its whitespace is
\* collapsed.
C19_WrittenTweetSanitized ==
    /\ Wrote("tweetify_post") => Sanitized(tweet.doc.content)
    /\ Wrote("root_tweetify_post") => Sanitized(rootTweet.doc.content)

\* fetch_posts got the change log with status 200
Fetched == resp.status = "200"

EligibleAt == {i \in DOMAIN resp.elements : Eligible(resp.elements[i])}

DatedAt == {i \in EligibleAt : resp.elements[i].capturedAt > 0}

\* last_linkedin_post.json was written from the record at i
WrittenFrom(i) ==
    /\ Wrote("fetch_posts")
    /\ lastPost.st = "ok"
    /\ lastPost.doc.content = HtmlContent(resp.elements[i].text)
    /\ lastPost.doc.url = PostUrl(resp.elements[i].resourceId)
    /\ lastPost.doc.published_at = IsoFormat(resp.elements[i].capturedAt)

\* "No posts found" was printed, nothing was written, and the script ended
\* with exit code 0
NothingFound ==
    /\ \E i \in DOMAIN io : io[i] = Io("fetch_posts", "print", "No posts found")
    /\ ~Wrote("fetch_posts")
    /\ lastPost \in {Missing, FileOf(PriorPost)}
    /\ (stage = "fetch_posts" => exitCode = 0)

\* C20 as stated: when the change log has eligible records, the snapshot is
\* written from one with the greatest capturedAt among them; when it has none,
\* "No posts found" is reported, nothing is written and the script ends with 0.
C20_LatestEligibleOrNothing ==
    Fetched =>
        IF EligibleAt # {}
        THEN \E i \in EligibleAt :
                /\ \A j \in EligibleAt :
                        resp.elements[j].capturedAt <= resp.elements[i].capturedAt
                /\ WrittenFrom(i)
        ELSE NothingFound

\* C20: when the change log has eligible records with a capturedAt above 0,
\* the snapshot is written from the first of those with the greatest
\* capturedAt; when it has none, eligible records without a capturedAt above 0
\* included, "No posts found" is reported, nothing is written and the script
\* ends with 0.
C20_FirstLatestDatedOrNothing ==
    Fetched =>
        IF DatedAt # {}
        THEN \E i \in DatedAt :
                /\ \A j \in DatedAt :
                        \/ resp.elements[j].capturedAt < resp.elements[i].capturedAt
                        \/ resp.elements[j].capturedAt = resp.elements[i].capturedAt /\ i <= j
                /\ WrittenFrom(i)
        ELSE NothingFound

\* two posts were created at the same time and the snapshot is of the one the
\* change log lists first, which is not the one in the repository before
C20_Witness ==
    /\ Fetched
    /\ Len(resp.elements) = 2
    /\ DatedAt = {1, 2}
    /\ resp.elements[1].capturedAt = resp.elements[2].capturedAt
    /\ resp.elements[1].resourceId = "p2"
    /\ resp.elements[2].resourceId = "p1"
    /\ WrittenFrom(1)

\* the mapping of the call that was made, and the marker of each of its keys
FillMapping ==
    IF fnName = "fill_placeholders" THEN SeoMapping(fnIn.text)
    ELSE TweetMapping(fnIn.text, fnIn.urls)

FillMarker(k) == IF fnName = "fill_placeholders" THEN Marker(k) ELSE CurlyMarker(k)

\* t with the markers of the mapping's keys replaced by their values in one
\* pass from left to right: what is inserted is not looked at again
RECURSIVE Substituted(_, _)
Substituted(t, mapping) ==
    LET hits == {h \in (1..Len(t)) \X DOMAIN mapping :
                    LET m == FillMarker(mapping[h[2]].k)
                    IN  /\ h[1] + Len(m) - 1 <= Len(t)
                        /\ SubSeq(t, h[1], h[1] + Len(m) - 1) = m}
        h == CHOOSE x \in hits : \A y \in hits : x[1] <= y[1]
    IN  IF hits = {} THEN t
        ELSE SubSeq(t, 1, h[1] - 1) \o mapping[h[2]].v
             \o Substituted(SubSeq(t, h[1] + Len(FillMarker(mapping[h[2]].k)), Len(t)),
                            mapping)

Reversed(q) == [i \in 1..Len(q) |-> q[Len(q) + 1 - i]]

Filled == fnName \in {"fill_placeholders", "apply_curly_placeholders"} /\ fnOut # <<>>

\* C21: the message is the template with every marker of a known key replaced
\* by the key's value and nothing else changed, the inserted values included,
\* and it is the same when the keys are processed in the reverse order.
C21_SubstitutesTemplateOnly ==
    Filled =>
        /\ fnOut[1] = Substituted(fnIn.template, FillMapping)
        /\ fnOut[1] = IF fnName = "fill_placeholders"
                      THEN fill_placeholders(fnIn.template, Reversed(FillMapping))
                      ELSE apply_curly_placeholders(fnIn.template, Reversed(FillMapping))

====
